---------------------------- MODULE Spec2Model ----------------------------
(***************************************************************************)
(* Instance lifecycle orchestrator of djangify/provisioner.                *)
(*                                                                         *)
(* The ledger (Customer / Subscription / Instance rows), the container     *)
(* runtime, the edge routing files and the certificate store are the       *)
(* state.  Every Python function of the orchestrator is an operator that   *)
(* takes the world `w` (and, where the code passes one, the in-memory      *)
(* Instance object `o`) and returns the world after the call together      *)
(* with the object, the return value and whether it raised.  An action     *)
(* applies one handler to the current world.                               *)
(***************************************************************************)
EXTENDS Integers, Sequences, FiniteSets, TLC

\* ------------------------------------------------------------------ bounds
NCust == 2          \* billing-provider customers
MaxInst == 2        \* Instance rows ever created (auto-increment ids)
NPorts == 2         \* size of the configured port range
MaxCtr == 3         \* containers ever created by the runtime
MaxMail == 2        \* welcome mails counted per instance (saturating)
NProc == 2          \* concurrent units of work
MaxEvents == 3

PORT_RANGE_START == 8100

Custs == 1..NCust
InstIds == 1..MaxInst
SubRefs == 1..NCust
\* range(PORT_RANGE_START, PORT_RANGE_END + 1) when the range holds n ports.
Ports(n) == PORT_RANGE_START..(PORT_RANGE_START + n - 1)
Subdomains == {"a", "b"}
Procs == 1..NProc

NoSub == 0          \* an event that carries no subscription reference
NoPort == 0         \* port IS NULL
NoCid == 0          \* container_id = ''

\* The billing provider's customer that owns subscription reference s.
OwnerOf(s) == s

VARIABLES
  inst,      \* Instance table: id -> row (id = 0 in the row: no such row)
  nextInst,  \* next auto-increment Instance id
  cust,      \* Customer table, keyed by the billing provider's customer id
  subs,      \* Subscription table, keyed by the external subscription id
  ctr,       \* container runtime: container name (one per subdomain) -> container
  nextCid,   \* next container identity the runtime hands out
  nginx,     \* routing configuration file per subdomain
  certs,     \* domains with a certificate on disk
  sent,      \* welcome mails delivered per instance (saturating count)
  last,      \* the last unit of work: operation, target, result, effects
  proc,      \* concurrent units of work: position and in-memory objects
  seen       \* billing events delivered so far, and whether a step failed

vars == <<inst, nextInst, cust, subs, ctr, nextCid, nginx, certs, sent,
          last, proc, seen>>

\* ------------------------------------------------------------------ rows
NoRow == [id |-> 0, customer |-> 0, subdomain |-> "", status |-> "",
          status_message |-> "", port |-> NoPort, container_id |-> NoCid,
          container_name |-> "", site_name |-> "", welcome_email_sent |-> FALSE,
          custom_domain |-> "", custom_domain_verified |-> FALSE,
          custom_domain_ssl |-> FALSE, last_health_check |-> FALSE]

NewRow(i, c, sd, sn) == [NoRow EXCEPT !.id = i, !.customer = c, !.subdomain = sd,
                                     !.site_name = sn, !.status = "pending"]

NoCust == [exists |-> FALSE, portal_password |-> FALSE]
NoSubRow == [exists |-> FALSE, customer |-> 0, status |-> "", cancelled_at |-> FALSE]
NoCtr == [id |-> NoCid, state |-> "none", hosts |-> ""]
NoConf == [exists |-> FALSE, port |-> NoPort, domain |-> "", ssl |-> FALSE]

Max(S) == CHOOSE x \in S : \A y \in S : y <= x
Min(S) == CHOOSE x \in S : \A y \in S : x <= y

Rows(w) == {i \in InstIds : w.inst[i].id # 0}

\* The world the operators thread through a unit of work: the state, `ext`
\* (how the external collaborators answer during this unit of work) and `out`
\* (what the unit of work did: containers created, welcome mails delivered,
\* the external steps it ran, AuditLog entries as <<instance id or 0, action>>).
NoOut == [created |-> 0, mails |-> 0, did |-> {}, logs |-> <<>>]

World(e) == [inst |-> inst, nextInst |-> nextInst, cust |-> cust, subs |-> subs,
             ctr |-> ctr, nextCid |-> nextCid, nginx |-> nginx, certs |-> certs,
             sent |-> sent, ext |-> e, out |-> NoOut]

\* Instance.save(update_fields=fields): one UPDATE of the named columns.
Save(w, o, fields) ==
  [w EXCEPT !.inst[o.id] =
     [f \in DOMAIN @ |-> IF f \in fields THEN o[f] ELSE @[f]]]

\* ProvisioningLog.objects.create(instance=i, action=a); i = 0: instance=None.
Log(w, i, a) == [w EXCEPT !.out.logs = Append(@, <<i, a>>)]

\* The unit of work ran the external step `what`.
Did(w, what) == [w EXCEPT !.out.did = @ \cup {what}]

\* What a call gives back: the world, the in-memory object, the return
\* value and whether the call raised.
Res(w, o, ret, exc) == [w |-> w, o |-> o, ret |-> ret, exc |-> exc]


\* ------------------------------------------------------------ port allocator
\* used_ports of allocate_port: the ports of every other row not in status
\* deleted (a NULL port is in the list and matches no port of the range).
UsedPorts(w, id) ==
  {w.inst[j].port : j \in {k \in Rows(w) : k # id /\ w.inst[k].status # "deleted"}}

\* port = IntegerField(unique=True): the UPDATE raises IntegrityError when any
\* other row, deleted or not, already holds the value.
PortUniqueNoCheck(w, id, p) == FALSE
PortUniqueViolated(w, id, p) ==
  \E j \in Rows(w) : j # id /\ w.inst[j].port = p

\* The scan of the range and the write, given the ports read as in use.
AllocWrite(w, o, used) ==
  IF o.port # NoPort THEN Res(w, o, o.port, FALSE)
  ELSE LET free == {p \in Ports(w.ext.nports) : p \notin used} IN
    IF free = {} THEN Res(w, o, NoPort, TRUE)
    ELSE LET p == Min(free)
             o2 == [o EXCEPT !.port = p] IN
      IF PortUniqueViolated(w, o.id, p) THEN Res(w, o2, NoPort, TRUE)
      ELSE Res(Save(w, o2, {"port"}), o2, p, FALSE)

allocate_port(w, o) == AllocWrite(w, o, UsedPorts(w, o.id))

\* ---------------------------------------------------------- container driver
\* client.containers.get(container_id): "null" when the identity is empty
\* (the client refuses an empty resource id with an error that is not
\* NotFound), "down" when the runtime API fails, else found or notfound.
CtrOf(w, cid) == {sd \in Subdomains : w.ctr[sd].id = cid}
Lookup(w, cid) ==
  IF cid = NoCid THEN "null"
  ELSE IF w.ext.docker = "down" THEN "down"
  ELSE IF CtrOf(w, cid) # {} THEN "found" ELSE "notfound"

SetCtrState(w, cid, st) ==
  [w EXCEPT !.ctr = [sd \in Subdomains |->
     IF w.ctr[sd].id = cid THEN [w.ctr[sd] EXCEPT !.state = st] ELSE w.ctr[sd]]]
RemoveCtr(w, cid) ==
  [w EXCEPT !.ctr = [sd \in Subdomains |->
     IF w.ctr[sd].id = cid THEN NoCtr ELSE w.ctr[sd]]]

\* The except branch of provision_instance / start_instance.
ProvFailNoStatus(w, o) == Res(Log(w, o.id, "error"), o, FALSE, TRUE)
ProvFailMessageOnly(w, o) ==
  LET o2 == [o EXCEPT !.status_message = "err"] IN
  Res(Log(Save(w, o2, {"status_message"}), o.id, "error"), o2, FALSE, TRUE)
ProvFail(w, o) ==
  LET o2 == [o EXCEPT !.status = "error", !.status_message = "err"] IN
  Res(Log(Save(w, o2, {"status", "status_message"}), o.id, "error"), o2, FALSE, TRUE)

\* provision_instance, first lines: status creating, persisted and logged.
ProvBegin(w, o) ==
  LET o1 == [o EXCEPT !.status = "creating"] IN
  Res(Log(Save(w, o1, {"status"}), o.id, "create"), o1, TRUE, FALSE)

\* provision_instance after the port allocation `a`: network, directories,
\* containers.run (the runtime refuses a second container of the same name).
ProvRun(a) ==
  IF a.exc THEN ProvFail(a.w, a.o)
  ELSE LET w == a.w
           o2 == [a.o EXCEPT !.container_name = "ebuilder_" \o a.o.subdomain] IN
    IF w.ext.docker # "ok" \/ w.ctr[o2.subdomain].id # NoCid THEN ProvFail(w, o2)
    ELSE LET cid == w.nextCid
             w2 == [w EXCEPT !.ctr[o2.subdomain] =
                        [id |-> cid, state |-> "running", hosts |-> o2.custom_domain],
                      !.nextCid = @ + 1,
                      !.out.created = @ + 1]
             o3 == [o2 EXCEPT !.container_id = cid, !.status = "running",
                              !.status_message = ""] IN
         Res(Log(Save(w2, o3, {"container_id", "container_name", "status",
                               "status_message"}), o3.id, "create"),
             o3, TRUE, FALSE)

provision_instance(w, o) ==
  LET Begun(b) == ProvRun(allocate_port(b.w, b.o)) IN Begun(ProvBegin(w, o))

start_instance(w, o) ==
  LET l == Lookup(w, o.container_id) IN
  IF l = "found" THEN
    LET o2 == [o EXCEPT !.status = "running", !.status_message = ""] IN
    Res(Log(Save(SetCtrState(w, o.container_id, "running"), o2,
                 {"status", "status_message"}), o.id, "start"), o2, TRUE, FALSE)
  ELSE IF l = "notfound" THEN provision_instance(Log(w, o.id, "start"), o)
  ELSE ProvFail(w, o)

StopInstanceNoNotFound(w, o) ==
  LET l == Lookup(w, o.container_id) IN
  IF l = "found" THEN
    LET o2 == [o EXCEPT !.status = "stopped"] IN
    Res(Log(Save(SetCtrState(w, o.container_id, "exited"), o2, {"status"}),
            o.id, "stop"), o2, TRUE, FALSE)
  ELSE Res(Log(w, o.id, "error"), o, FALSE, TRUE)

stop_instance(w, o) ==
  LET l == Lookup(w, o.container_id) IN
  IF l = "found" THEN
    LET o2 == [o EXCEPT !.status = "stopped"] IN
    Res(Log(Save(SetCtrState(w, o.container_id, "exited"), o2, {"status"}),
            o.id, "stop"), o2, TRUE, FALSE)
  ELSE IF l = "notfound" THEN
    LET o2 == [o EXCEPT !.status = "stopped"] IN
    Res(Log(Save(w, o2, {"status"}), o.id, "stop"), o2, TRUE, FALSE)
  ELSE Res(Log(w, o.id, "error"), o, FALSE, TRUE)

restart_instance(w, o) ==
  LET l == Lookup(w, o.container_id) IN
  IF l = "found" THEN
    LET o2 == [o EXCEPT !.status = "running"] IN
    Res(Log(Save(Did(SetCtrState(w, o.container_id, "running"), "restart"),
                 o2, {"status"}), o.id, "restart"), o2, TRUE, FALSE)
  ELSE Res(Log(w, o.id, "error"), o, FALSE, TRUE)

delete_instance(w, o) ==
  LET l == Lookup(w, o.container_id) IN
  IF l \in {"found", "notfound"} THEN
    LET o2 == [o EXCEPT !.status = "deleted"] IN
    Res(Log(Save(RemoveCtr(w, o.container_id), o2, {"status"}), o.id, "delete"),
        o2, TRUE, FALSE)
  ELSE Res(Log(w, o.id, "error"), o, FALSE, TRUE)

\* health_check(instance); probe: what the GET of the health path gives
\* ("200", another status, or "refused": the request raises).
\* last_health_check: NULL (FALSE) or the time of a check (TRUE); the write
\* of the timestamp is kept in did.
health_check(w, o, probe) ==
  LET l == Lookup(w, o.container_id)
      o2 == [o EXCEPT !.last_health_check = TRUE] IN
  IF l = "notfound" THEN Res(w, o, FALSE, FALSE)
  ELSE IF l = "found" THEN
    IF \E sd \in CtrOf(w, o.container_id) : w.ctr[sd].state # "running"
      THEN Res(w, o, FALSE, FALSE)
    ELSE IF probe = "refused" THEN Res(Log(w, o.id, "health_check"), o, FALSE, FALSE)
    ELSE Res(Log(Save(Did(w, "timestamp"), o2, {"last_health_check"}),
                 o.id, "health_check"), o2, probe = "200", FALSE)
  ELSE Res(Log(w, o.id, "health_check"), o, FALSE, FALSE)

\* --------------------------------------------------------- edge router manager
\* NginxManager.provision_nginx: regenerates the instance's routing file from
\* the object's current fields (subdomain host always; custom-domain host,
\* HTTPS once custom_domain_ssl); raises, leaving the file as it was, when
\* the write or the validate-and-reload step fails.
provision_nginx(w, o) ==
  IF ~w.ext.nginx THEN Res(Did(w, "nginx"), o, FALSE, TRUE)
  ELSE Res([Did(w, "nginx") EXCEPT !.nginx[o.subdomain] =
              [exists |-> TRUE, port |-> o.port, domain |-> o.custom_domain,
               ssl |-> o.custom_domain_ssl]], o, TRUE, FALSE)


\* ------------------------------------------------------------- notifications
BumpSent(w, i) ==
  [w EXCEPT !.sent[i] = IF @ < MaxMail THEN @ + 1 ELSE @, !.out.mails = @ + 1]

\* send_welcome_email(instance, portal_password): the message carries the
\* portal block only when a portal_password is passed. True when the
\* transport took the mail; on a transport failure one AuditLog error entry
\* on the instance and False. Never raises.
SendWelcomeRaises(w, o, portal_password) ==
  IF w.ext.mail THEN Res(BumpSent(Did(w, "mail"), o.id), o, TRUE, FALSE)
  ELSE Res(Did(w, "mail"), o, FALSE, TRUE)
send_welcome_email(w, o, portal_password) ==
  LET w1 == IF portal_password THEN Did(w, "portal_block") ELSE w IN
  IF w.ext.mail THEN Res(BumpSent(Did(w1, "mail"), o.id), o, TRUE, FALSE)
  ELSE Res(Log(Did(w1, "mail"), o.id, "error"), o, FALSE, FALSE)

\* InstanceAdmin.resend_welcome_email, one instance of the queryset: the flag
\* is saved when the send succeeded.
resend_welcome_email(w, o) ==
  LET Sent(m) ==
        IF m.ret
          THEN Res(Save(m.w, [o EXCEPT !.welcome_email_sent = TRUE],
                        {"welcome_email_sent"}),
                   [o EXCEPT !.welcome_email_sent = TRUE], "sent", FALSE)
        ELSE Res(m.w, o, "failed", FALSE) IN
  Sent(send_welcome_email(w, o, FALSE))

\* -------------------------------------------------- billing event reconciler
\* Customer.instance: instances.first() under ordering -created_at.
CustRows(w, c) == {i \in Rows(w) : w.inst[i].customer = c}
CustInstance(w, c) == IF CustRows(w, c) = {} THEN NoRow ELSE w.inst[Max(CustRows(w, c))]

_get_or_create_customer(w, c) ==
  Log([w EXCEPT !.cust[c].exists = TRUE], 0, "webhook")

status_map(st) ==
  CASE st = "active" -> "active"
    [] st = "past_due" -> "past_due"
    [] st = "canceled" -> "cancelled"
    [] st = "unpaid" -> "unpaid"
    [] st = "trialing" -> "trialing"
    [] st = "incomplete" -> "active"
    [] st = "incomplete_expired" -> "cancelled"
    [] OTHER -> st

\* Subscription.objects.update_or_create(stripe_subscription_id=s, defaults):
\* customer and status are overwritten, cancelled_at is not among the defaults.
UpsertTouchesCancelledAt(w, s, st, c) ==
  Log([w EXCEPT !.subs[s] = [exists |-> TRUE, customer |-> c,
                             status |-> status_map(st),
                             cancelled_at |-> ~@.cancelled_at]], 0, "webhook")
_upsert_subscription_from_stripe(w, s, st, c) ==
  Log([w EXCEPT !.subs[s] = [exists |-> TRUE, customer |-> c,
                             status |-> status_map(st),
                             cancelled_at |-> @.cancelled_at]], 0, "webhook")

SubsOf(w, c) == {s \in SubRefs : w.subs[s].exists /\ w.subs[s].customer = c}

\* _get_or_create_subscription: by reference, else the customer's latest row,
\* else what the billing provider lists for the customer (ext.stripe: "none"
\* also stands for a provider error, which is logged and gives None).
\* ret: the subscription reference found, or NoSub.
_get_or_create_subscription(w, c, sref) ==
  IF sref # NoSub /\ w.subs[sref].exists THEN Res(w, NoRow, sref, FALSE)
  ELSE IF SubsOf(w, c) # {} THEN Res(w, NoRow, Max(SubsOf(w, c)), FALSE)
  ELSE IF w.ext.stripe = "none" THEN Res(Log(w, 0, "error"), NoRow, NoSub, FALSE)
  ELSE Res(_upsert_subscription_from_stripe(Log(w, 0, "webhook"), c, w.ext.stripe, c),
           NoRow, c, FALSE)

InvoiceNeverPaid(w, sref) == FALSE
_stripe_latest_invoice_is_paid(w, sref) == w.ext.paid

\* ensure_instance_provisioned up to the decision (lines 244-309).
\* ret: "defer" (return False), "noop" (return True), "work" (go on).
EnsureDecide(w, c, sref, payment_confirmed) ==
  LET Decide(o, g) ==
        IF o.id = 0 THEN Res(Log(w, 0, "webhook"), o, "defer", FALSE)
        ELSE IF g.ret = NoSub THEN Res(Log(g.w, 0, "webhook"), o, "defer", FALSE)
        ELSE LET certain == payment_confirmed
                       \/ (sref # NoSub /\ _stripe_latest_invoice_is_paid(g.w, sref))
                 inactive == g.w.subs[g.ret].status # "active"
                 w2 == IF inactive /\ certain
                         THEN [g.w EXCEPT !.subs[g.ret].status = "active"] ELSE g.w IN
          IF inactive /\ ~certain THEN Res(Log(w2, 0, "webhook"), o, "defer", FALSE)
          ELSE IF ~payment_confirmed /\ sref # NoSub
                  /\ ~_stripe_latest_invoice_is_paid(g.w, sref)
            THEN Res(Log(w2, 0, "webhook"), o, "defer", FALSE)
          ELSE IF o.status = "running" /\ o.welcome_email_sent
            THEN Res(Log(w2, 0, "webhook"), o, "noop", FALSE)
          ELSE Res(w2, o, "work", FALSE) IN
  Decide(CustInstance(w, c), _get_or_create_subscription(w, c, sref))

\* The except branch of ensure_instance_provisioned: logged, return False.
EnsureExcept(w, o) == Res(Log(w, 0, "error"), o, FALSE, FALSE)

\* Lines 315-321: container and routing when the instance is not running.
\* exc: the try block raised (ensure then logs and returns False).
EnsureRoute(p) ==
  LET Routed(n) ==
        IF n.exc THEN Res(n.w, n.o, FALSE, TRUE)
        ELSE Res(n.w, [n.o EXCEPT !.status = "running"], TRUE, FALSE) IN
  IF p.exc THEN Res(p.w, p.o, FALSE, TRUE)
  ELSE Routed(provision_nginx(p.w, p.o))

EnsureProvision(w, o) ==
  IF o.status = "running" THEN Res(w, o, TRUE, FALSE)
  ELSE EnsureRoute(provision_instance(w, o))

\* Lines 324-344: the welcome mail, the flag set only when the send succeeded.
EnsureEmail(w, o) ==
  LET Mailed(m) ==
        IF m.ret THEN Res(m.w, [o EXCEPT !.welcome_email_sent = TRUE], TRUE, FALSE)
        ELSE Res(Log(m.w, 0, "error"), o, TRUE, FALSE) IN
  IF o.welcome_email_sent THEN Res(w, o, TRUE, FALSE)
  ELSE Mailed(send_welcome_email(
                [w EXCEPT !.cust[o.customer].portal_password = TRUE], o,
                ~w.cust[o.customer].portal_password))

\* Lines 346-353: the final save of status and welcome_email_sent.
EnsureSave(w, o) ==
  Res(Log(Save(w, o, {"status", "welcome_email_sent"}), 0, "webhook"), o, TRUE, FALSE)

\* Lines 311-361 in one piece.
EnsureWork(w, o) ==
  LET Saved(m) == EnsureSave(m.w, m.o)
      Worked(p) == IF p.exc THEN EnsureExcept(p.w, p.o)
                   ELSE Saved(EnsureEmail(p.w, p.o)) IN
  Worked(EnsureProvision(w, o))

ensure_instance_provisioned(w, c, sref, payment_confirmed) ==
  LET Decided(d) ==
        IF d.ret = "defer" THEN Res(d.w, d.o, FALSE, FALSE)
        ELSE IF d.ret = "noop" THEN Res(d.w, d.o, TRUE, FALSE)
        ELSE EnsureWork(d.w, d.o) IN
  Decided(EnsureDecide(w, c, sref, payment_confirmed))


\* The pattern ^[a-z0-9]([a-z0-9-]{0,61}[a-z0-9])?$ : the labels of Subdomains
\* match it, the empty string and "Bad_" do not.
CheckoutSubdomains == Subdomains \cup {"", "Bad_"}
ValidSubdomain(sd) == sd \in Subdomains

\* Instance.objects.filter(subdomain=sd).exclude(status="deleted").exists()
SubdomainNeverInUse(w, sd) == FALSE
SubdomainInUse(w, sd) ==
  \E i \in Rows(w) : w.inst[i].subdomain = sd /\ w.inst[i].status # "deleted"

\* subdomain = CharField(unique=True): the INSERT raises IntegrityError when
\* any row, deleted or not, holds the subdomain.
SubdomainUniqueNoCheck(w, sd) == FALSE
SubdomainUniqueViolated(w, sd) == \E i \in Rows(w) : w.inst[i].subdomain = sd

\* handle_checkout_completed for customer c, metadata (sd, sn), subscription
\* reference sref. ret: what the handler did.
CheckoutReconcile(w1, o, c, sd, sn, sref) ==
  LET Ensured(e, what) == Res(e.w, e.o, what, FALSE)
      o2 == [o EXCEPT !.site_name = sn,
                      !.status = IF @ = "deleted" THEN "pending" ELSE @]
      i == w1.nextInst IN
  IF o.id # 0 THEN
    IF o.subdomain # sd /\ o.status # "deleted"
      THEN Res(Log(w1, 0, "error"), o, "other_subdomain", FALSE)
    ELSE Ensured(ensure_instance_provisioned(
                   Log(IF o2 # o THEN Save(w1, o2, {"site_name", "status"}) ELSE w1,
                       0, "webhook"), c, sref, FALSE), "reconciled")
  ELSE IF SubdomainUniqueViolated(w1, sd) THEN Res(w1, NoRow, "integrity", TRUE)
  ELSE Ensured(ensure_instance_provisioned(
                 Log([w1 EXCEPT !.inst[i] = NewRow(i, c, sd, sn), !.nextInst = i + 1],
                     0, "webhook"), c, sref, FALSE), "created")

handle_checkout_completed(w, c, sd, sn, sref) ==
  LET Known(w1) == CheckoutReconcile(w1, CustInstance(w1, c), c, sd, sn, sref) IN
  IF sd = "" THEN Res(Log(Log(w, 0, "webhook"), 0, "error"), NoRow, "no_subdomain", FALSE)
  ELSE IF ~ValidSubdomain(sd)
    THEN Res(Log(Log(w, 0, "webhook"), 0, "error"), NoRow, "invalid", FALSE)
  ELSE IF SubdomainInUse(w, sd)
    THEN Res(Log(Log(w, 0, "webhook"), 0, "error"), NoRow, "taken", FALSE)
  ELSE Known(_get_or_create_customer(Log(w, 0, "webhook"), c))

\* handle_subscription_created: the event carries subscription s in status st.
handle_subscription_created(w, s, st) ==
  LET c == OwnerOf(s)
      w0 == Log(w, 0, "webhook")
      w1 == IF w0.cust[c].exists THEN w0 ELSE _get_or_create_customer(w0, c)
      w2 == _upsert_subscription_from_stripe(w1, s, st, c) IN
  ensure_instance_provisioned(w2, c, s, FALSE)

\* handle_subscription_deleted: cancel, and stop the instance when running;
\* a failing stop is logged and swallowed.
SubDeletedNoCancel(w, s) == Res(Log(w, 0, "webhook"), NoRow, "unknown", FALSE)
handle_subscription_deleted(w, s) ==
  LET Stopped(r) ==
        IF r.exc THEN Res(Log(Log(r.w, 0, "error"), 0, "webhook"), r.o, "stop_failed", FALSE)
        ELSE Res(Log(Log(r.w, 0, "webhook"), 0, "webhook"), r.o, "stopped", FALSE)
      Cancelled(w1, o) ==
        IF o.id # 0 /\ o.status = "running" THEN Stopped(stop_instance(w1, o))
        ELSE Res(Log(w1, 0, "webhook"), o, "cancelled", FALSE) IN
  IF ~w.subs[s].exists THEN Res(Log(w, 0, "webhook"), NoRow, "unknown", FALSE)
  ELSE Cancelled([w EXCEPT !.subs[s].status = "cancelled", !.subs[s].cancelled_at = TRUE],
                 CustInstance(w, w.subs[s].customer))

\* handle_payment_failed: the matching subscription becomes past_due.
PaymentFailedNoLookup(w, sref) ==
  IF sref = NoSub THEN Res(w, NoRow, "no_ref", FALSE)
  ELSE Res(Log([w EXCEPT !.subs[sref].status = "past_due"], 0, "webhook"),
           NoRow, "past_due", FALSE)
handle_payment_failed(w, sref) ==
  IF sref = NoSub THEN Res(w, NoRow, "no_ref", FALSE)
  ELSE IF w.subs[sref].exists
    THEN Res(Log([w EXCEPT !.subs[sref].status = "past_due"], 0, "webhook"),
             NoRow, "past_due", FALSE)
  ELSE Res(Log(w, 0, "webhook"), NoRow, "unknown", FALSE)

\* handle_invoice_paid: recover customer and subscription, force the
\* subscription active, ensure provisioning with payment_confirmed.
InvoicePaidRecover(w, c, sref) ==
  LET Found(g) ==
        IF g.ret # NoSub /\ g.w.subs[g.ret].status # "active"
          THEN [g.w EXCEPT !.subs[g.ret].status = "active"] ELSE g.w IN
  Found(_get_or_create_subscription(
          IF w.cust[c].exists THEN Log(w, 0, "webhook")
          ELSE Log(_get_or_create_customer(Log(w, 0, "webhook"), c), 0, "webhook"),
          c, sref))

InvoicePaidCreates(w, c, sref) ==
  LET Created(r) == Res(r.w, r.o, r.ret = "created", FALSE) IN
  Created(handle_checkout_completed(w, c, "a", "Shop", sref))
handle_invoice_paid(w, c, sref) ==
  LET Ensured(e) == IF e.ret THEN e ELSE Res(Log(e.w, 0, "webhook"), e.o, FALSE, FALSE) IN
  Ensured(ensure_instance_provisioned(InvoicePaidRecover(w, c, sref), c, sref, TRUE))

\* --------------------------------------------------------- webhook endpoint
\* A delivery to the endpoint: whether its signature verifies and its payload
\* parses, its event type, and the customer and subdomain its object names
\* (the subscription reference of customer c is c).
EventTypes == {"checkout.session.completed", "customer.subscription.created",
               "customer.subscription.deleted", "invoice.payment_failed",
               "invoice.paid"}
AllDeliveries == [sig : BOOLEAN, wellformed : BOOLEAN,
                  type : EventTypes \cup {"charge.refunded"},
                  c : Custs, sd : Subdomains]
\* The deliveries told apart: only a checkout carries a subdomain, and a
\* delivery that is refused is refused whatever customer it names.
Deliveries ==
  {q \in AllDeliveries :
     /\ q.type # "checkout.session.completed" => q.sd = "a"
     /\ ~(q.sig /\ q.wellformed) =>
          /\ q.c = Min(Custs) /\ q.sd = "a"
          /\ q.type \in {"checkout.session.completed", "invoice.paid"}}

\* stripe.Webhook.construct_event: ValueError on a payload that does not
\* parse, SignatureVerificationError on a signature that does not verify.
ConstructEventAlways(q) == TRUE
construct_event(q) == q.sig /\ q.wellformed

\* handlers.get(event_type)(event["data"]["object"])
Dispatch(w, q) ==
  CASE q.type = "checkout.session.completed" ->
         handle_checkout_completed(w, q.c, q.sd, "Shop", q.c)
    [] q.type = "customer.subscription.created" ->
         handle_subscription_created(w, q.c, "active")
    [] q.type = "customer.subscription.deleted" ->
         handle_subscription_deleted(w, q.c)
    [] q.type = "invoice.payment_failed" -> handle_payment_failed(w, q.c)
    [] q.type = "invoice.paid" -> handle_invoice_paid(w, q.c, q.c)

\* stripe_webhook(request). ret: the HTTP status of the response; did holds
\* "handler" when a handler was run and "raised" when it raised.
stripe_webhook(w, q) ==
  LET Handled(h) ==
        IF h.exc THEN Res(Log(Did(h.w, "raised"), 0, "error"), NoRow, "200", FALSE)
        ELSE Res(h.w, NoRow, "200", FALSE) IN
  IF ~construct_event(q) THEN Res(Log(w, 0, "error"), NoRow, "400", FALSE)
  ELSE IF q.type \notin EventTypes
    THEN Res(Log(Log(w, 0, "webhook"), 0, "webhook"), NoRow, "200", FALSE)
  ELSE Handled(Dispatch(Did(Log(w, 0, "webhook"), "handler"), q))

\* ------------------------------------------------- maintenance and operator
\* A sweep that only reads.
SyncRowReadOnly(w, r) == r

\* One instance of the sync_status loop: the ledger status follows the runtime.
SyncRow(w, r) ==
  IF r.id = 0 \/ r.status \in {"deleted", "pending"} \/ r.container_id = NoCid THEN r
  ELSE IF CtrOf(w, r.container_id) # {} THEN
    LET actual == w.ctr[CHOOSE sd \in CtrOf(w, r.container_id) : TRUE].state IN
    IF actual = "running" /\ r.status # "running" THEN [r EXCEPT !.status = "running"]
    ELSE IF actual = "exited" /\ r.status = "running" THEN [r EXCEPT !.status = "stopped"]
    ELSE r
  ELSE IF r.status = "running"
    THEN [r EXCEPT !.status = "error", !.status_message = "Container not found"]
  ELSE r

\* Command.sync_status: a runtime API failure escapes the loop at the first
\* instance looked up, before any row is written.
SyncLooksUp(w) ==
  \E i \in Rows(w) : /\ w.inst[i].status \notin {"deleted", "pending"}
                      /\ w.inst[i].container_id # NoCid
sync_status(w) ==
  IF w.ext.docker = "down" THEN Res(w, NoRow, "", SyncLooksUp(w))
  ELSE Res([w EXCEPT !.inst = [i \in InstIds |-> SyncRow(w, w.inst[i])]],
           NoRow, "", FALSE)

\* Command.cleanup: delete_instance for every deleted row that still names a
\* container; a failure is reported and the loop goes on.
RECURSIVE CleanupFrom(_, _)
CleanupFrom(w, ids) ==
  IF ids = {} THEN w
  ELSE LET i == Max(ids)
           r == w.inst[i] IN
    IF r.id # 0 /\ r.status = "deleted" /\ r.container_id # NoCid
      THEN CleanupFrom(delete_instance(w, r).w, ids \ {i})
    ELSE CleanupFrom(w, ids \ {i})

cleanup(w) == CleanupFrom(w, InstIds)

\* destroy_instance <subdomain> [--hard].
InstBySubdomain(w, sd) == {i \in Rows(w) : w.inst[i].subdomain = sd}
destroy_instance(w, sd, hard) ==
  IF InstBySubdomain(w, sd) = {} THEN Res(w, NoRow, "no_instance", TRUE)
  ELSE LET o == w.inst[CHOOSE i \in InstBySubdomain(w, sd) : TRUE] IN
    IF o.container_id # NoCid /\ w.ext.docker = "down"
      THEN Res(w, o, "runtime_error", TRUE)
    ELSE LET w1 == IF o.container_id # NoCid THEN RemoveCtr(w, o.container_id) ELSE w IN
      IF hard THEN Res(Log([w1 EXCEPT !.inst[o.id] = NoRow,
                                      !.sent[o.id] = 0], 0, "delete"),
                       NoRow, "hard", FALSE)
      ELSE LET o2 == [o EXCEPT !.status = "deleted", !.container_id = NoCid,
                               !.container_name = ""] IN
        Res(Log(Save(w1, o2, {"status", "container_id", "container_name"}),
                0, "delete"), o2, "soft", FALSE)


\* ------------------------------------------------------ custom domain service
\* check_domain_in_nginx: the domain appears in a routing file other than the
\* instance's own.
check_domain_in_nginx(w, d, o) ==
  \E sd \in Subdomains :
    sd # o.subdomain /\ w.nginx[sd].exists /\ w.nginx[sd].domain = d

\* check_domain_ownership: another non-deleted row holds the domain.
check_domain_ownership(w, d, o) ==
  \E i \in Rows(w) :
    i # o.id /\ w.inst[i].custom_domain = d /\ w.inst[i].status # "deleted"

preflight_domain_check(w, d, o) ==
  IF check_domain_in_nginx(w, d, o)
    THEN Res(Log(w, o.id, "error"), o, "nginx_conflict", TRUE)
  ELSE IF check_domain_ownership(w, d, o)
    THEN Res(Log(w, o.id, "error"), o, "owned", TRUE)
  ELSE Res(Log(w, o.id, "webhook"), o, "ok", FALSE)

\* verify_dns: the bare name and its www. variant both resolve to SERVER_IP;
\* a resolver error is a failed check.
VerifyDnsAlways(w, d) == TRUE
verify_dns(w, d) == w.ext.dns

CertificateNeverFound(w, d) == FALSE
check_ssl_certificate_exists(w, d) == d \in w.certs

\* obtain_ssl_certificate / delete_ssl_certificate: the certbot subprocess;
\* a non-zero exit is False.
obtain_ssl_certificate(w, d) ==
  IF w.ext.certbot
    THEN Res([Did(w, "certbot") EXCEPT !.certs = @ \cup {d}], NoRow, TRUE, FALSE)
  ELSE Res(Did(w, "certbot"), NoRow, FALSE, FALSE)

delete_ssl_certificate(w, d) ==
  IF w.ext.certbot
    THEN Res([Did(w, "certbot") EXCEPT !.certs = @ \ {d}], NoRow, TRUE, FALSE)
  ELSE Res(Did(w, "certbot"), NoRow, FALSE, FALSE)

update_container_allowed_hosts(w, o) == restart_instance(w, o)

\* setup_custom_domain, last step: the container restart.
SetupRestart(w, o) ==
  LET Restarted(r) == IF r.exc THEN Res(r.w, r.o, "restart_failed", TRUE)
                      ELSE Res(Log(r.w, o.id, "create"), r.o, "live", FALSE) IN
  Restarted(update_container_allowed_hosts(w, o))

\* setup_custom_domain, the certificate attempt (lines 309-348).
SetupSsl(w, o) ==
  LET o2 == [o EXCEPT !.custom_domain_ssl = TRUE]
      HttpOnly(r) == Res(r.w, r.o, IF r.exc THEN "restart_failed" ELSE "http_only", r.exc)
      Https(n) == IF n.exc THEN Res(n.w, o2, "nginx_failed", TRUE)
                  ELSE SetupRestart(Log(n.w, o.id, "create"), o2)
      Issued(c) ==
        IF ~c.ret THEN HttpOnly(update_container_allowed_hosts(Log(c.w, o.id, "error"), o))
        ELSE Https(provision_nginx(Save(c.w, o2, {"custom_domain_ssl"}), o2)) IN
  IF o.custom_domain_ssl THEN SetupRestart(Log(w, o.id, "webhook"), o)
  ELSE Issued(IF check_ssl_certificate_exists(w, o.custom_domain)
                THEN Res(Log(w, o.id, "webhook"), NoRow, TRUE, FALSE)
              ELSE obtain_ssl_certificate(w, o.custom_domain))

\* setup_custom_domain(instance). ret: where the procedure ended.
setup_custom_domain(w, o) ==
  LET d == o.custom_domain
      o1 == [o EXCEPT !.custom_domain_verified = TRUE]
      Routed(n) == IF n.exc THEN Res(n.w, o1, "nginx_failed", TRUE)
                   ELSE SetupSsl(Log(n.w, o.id, "create"), o1)
      Checked(pf) ==
        IF pf.exc THEN Res(pf.w, o, pf.ret, TRUE)
        ELSE IF ~o.custom_domain_verified /\ ~verify_dns(pf.w, d)
          THEN Res(Log(pf.w, o.id, "error"), o, "dns_failed", TRUE)
        ELSE Routed(provision_nginx(
                      Log(IF o.custom_domain_verified THEN pf.w
                          ELSE Save(pf.w, o1, {"custom_domain_verified"}),
                          o.id, "webhook"), o1)) IN
  IF d = "" THEN Res(w, o, "no_domain", TRUE)
  ELSE IF o.custom_domain_verified /\ o.custom_domain_ssl
          /\ check_ssl_certificate_exists(w, d)
    THEN Res(Log(w, o.id, "webhook"), o, "skip", FALSE)
  ELSE Checked(preflight_domain_check(w, d, o))

\* The columns remove_custom_domain clears in its one save.
DomainFieldsPartial == {"custom_domain"}
DomainFields == {"custom_domain", "custom_domain_verified", "custom_domain_ssl"}

\* remove_custom_domain(instance, delete_certificate).
remove_custom_domain(w, o, delete_certificate) ==
  LET o1 == [o EXCEPT !.custom_domain = "", !.custom_domain_verified = FALSE,
                      !.custom_domain_ssl = FALSE]
      Restarted(r) ==
        Res(Log(IF r.exc THEN Log(r.w, o.id, "error") ELSE r.w, o.id, "delete"),
            r.o, "removed", FALSE)
      Deleted(c) == Log(c.w, o.id, IF c.ret THEN "delete" ELSE "error")
      Certificate(w2) ==
        Restarted(update_container_allowed_hosts(
                    IF delete_certificate /\ o.custom_domain_ssl
                      THEN Deleted(delete_ssl_certificate(w2, o.custom_domain))
                    ELSE w2, o1))
      Routed(n) == Certificate(Log(n.w, o.id, IF n.exc THEN "error" ELSE "create")) IN
  IF o.custom_domain = "" THEN Res(Log(w, o.id, "webhook"), o, "no_domain", FALSE)
  ELSE Routed(provision_nginx(Save(w, o1, DomainFields), o1))

\* A retry that skips both guards and treats a certbot failure as non-fatal.
RetrySslUnguarded(w, o) == SetupSsl(w, o)

\* retry_ssl(instance).
retry_ssl(w, o) ==
  IF o.custom_domain = "" THEN Res(w, o, "no_domain", TRUE)
  ELSE IF ~o.custom_domain_verified THEN Res(w, o, "not_verified", TRUE)
  ELSE IF o.custom_domain_ssl /\ check_ssl_certificate_exists(w, o.custom_domain)
    THEN Res(Log(w, o.id, "webhook"), o, "skip", FALSE)
  ELSE LET o2 == [o EXCEPT !.custom_domain_ssl = TRUE]
           Https(n) == IF n.exc THEN Res(n.w, o2, "nginx_failed", TRUE)
                       ELSE SetupRestart(n.w, o2)
           Issued(c) ==
             IF ~c.ret THEN Res(Log(c.w, o.id, "error"), o, "ssl_failed", TRUE)
             ELSE Https(provision_nginx(Save(c.w, o2, {"custom_domain_ssl"}), o2)) IN
       Issued(obtain_ssl_certificate(w, o.custom_domain))

\* portal_set_custom_domain_api: the request's domain goes through
\* strip().lower(), loses its scheme and its trailing slash, is validated,
\* checked for conflicts and saved unverified.
RawDomains == {"x.com", "https://X.com/", "y.com", "", "nodot", "a.ebuilder.host"}
NormalizeDomain(raw) ==
  CASE raw = "https://X.com/" -> "x.com"
    [] OTHER -> raw
PortalSetDomain(w, o, d) ==
  IF o.id = 0 THEN Res(w, o, "no_instance", FALSE)
  ELSE IF d = "" THEN Res(w, o, "required", FALSE)
  ELSE IF d = "nodot" THEN Res(w, o, "invalid", FALSE)
  ELSE IF d = "a.ebuilder.host" THEN Res(w, o, "own_domain", FALSE)
  ELSE IF check_domain_in_nginx(w, d, o) THEN Res(w, o, "nginx_conflict", FALSE)
  ELSE IF check_domain_ownership(w, d, o) THEN Res(w, o, "owned", FALSE)
  ELSE LET o1 == [o EXCEPT !.custom_domain = d, !.custom_domain_verified = FALSE,
                           !.custom_domain_ssl = FALSE] IN
    Res(Save(w, o1, {"custom_domain", "custom_domain_verified", "custom_domain_ssl"}),
        o1, "saved", FALSE)

portal_set_custom_domain_api(w, c, raw) ==
  PortalSetDomain(w, CustInstance(w, c), NormalizeDomain(raw))

\* ------------------------------------------------------------------ state
SiteNames == {"Shop"}
StripeAnswers == {"none", "active", "past_due"}
EventStatuses == {"active", "incomplete"}

\* Every collaborator answering well.
ExtOk == [docker |-> "ok", nginx |-> TRUE, mail |-> TRUE, paid |-> TRUE,
          stripe |-> "active", dns |-> TRUE, certbot |-> TRUE, nports |-> NPorts]

\* What a unit of work may meet; at most one collaborator misbehaves during
\* one unit of work. The runtime: ok, refusing to run a container, API down.
ExtDocker == {[ExtOk EXCEPT !.docker = d] : d \in {"ok", "norun", "down"}}
ExtUnpaid == {[ExtOk EXCEPT !.paid = FALSE]}
ExtMail == {ExtOk, [ExtOk EXCEPT !.mail = FALSE]}
ExtBilling == ExtDocker \cup ExtUnpaid
                \cup {[ExtOk EXCEPT !.nginx = FALSE], [ExtOk EXCEPT !.mail = FALSE]}
                \cup {[ExtOk EXCEPT !.stripe = a] : a \in StripeAnswers}
ExtDomain == {[ExtOk EXCEPT !.docker = d, !.nginx = n, !.dns = r, !.certbot = b] :
                d \in {"ok", "down"}, n \in BOOLEAN, r \in BOOLEAN, b \in BOOLEAN}

\* The customer the single-tenant specifications deliver events for.
Focus == {Min(Custs)}

NoArg == [c |-> 0, i |-> 0, sd |-> "", sref |-> NoSub, flag |-> FALSE]
NoLast == [op |-> "init", arg |-> NoArg, env |-> ExtOk, ret |-> "", exc |-> FALSE,
           created |-> 0, mails |-> 0, did |-> {}, logged |-> {}]
B2S(b) == IF b THEN "true" ELSE "false"

\* The operations whose collaborator answers `last` keeps.
EnvOps == {"ensure", "stop_call", "setup", "remove", "provision", "send_welcome",
           "allocate", "health_check", "sub_created"}

Idle == [pc |-> "idle", c |-> 0, o |-> NoRow, used |-> {}, sd |-> ""]
NotSeen == [events |-> <<>>, ok |-> TRUE]

Init ==
  /\ inst = [i \in InstIds |-> NoRow]
  /\ nextInst = 1
  /\ cust = [c \in Custs |-> NoCust]
  /\ subs = [s \in SubRefs |-> NoSubRow]
  /\ ctr = [sd \in Subdomains |-> NoCtr]
  /\ nextCid = 1
  /\ nginx = [sd \in Subdomains |-> NoConf]
  /\ certs = {}
  /\ sent = [i \in InstIds |-> 0]
  /\ last = NoLast
  /\ proc = [p \in Procs |-> Idle]
  /\ seen = [c \in Custs |-> NotSeen]

\* The world after a unit of work becomes the state; op, arg, ret and exc
\* describe the unit of work in `last`.
WithinBounds(w) == w.nextInst <= MaxInst + 1 /\ w.nextCid <= MaxCtr + 1
Commit(w, op, arg, ret, exc) ==
  /\ WithinBounds(w)
  /\ inst' = w.inst
  /\ nextInst' = w.nextInst
  /\ cust' = w.cust
  /\ subs' = w.subs
  /\ ctr' = w.ctr
  /\ nextCid' = w.nextCid
  /\ nginx' = w.nginx
  /\ certs' = w.certs
  /\ sent' = w.sent
  /\ last' = [op |-> op, arg |-> arg,
              env |-> IF op \in EnvOps THEN w.ext ELSE ExtOk, ret |-> ret, exc |-> exc,
              created |-> w.out.created, mails |-> w.out.mails, did |-> w.out.did,
              logged |-> {w.out.logs[k][1] : k \in DOMAIN w.out.logs} \ {0}]

\* ------------------------------------------------------------------ actions
\* A billing webhook delivery, handled start to end, the collaborators
\* answering as some e of E.
Checkout(E, c, sd, sn, sref) ==
  \E e \in E :
    \E r \in {handle_checkout_completed(World(e), c, sd, sn, sref)} :
    /\ Commit(r.w, "checkout", [NoArg EXCEPT !.c = c, !.sd = sd, !.sref = sref],
              r.ret, r.exc)
    /\ UNCHANGED <<proc, seen>>

SubCreated(E, s, st) ==
  \E e \in E :
    \E r \in {handle_subscription_created(World(e), s, st)} :
    /\ Commit(r.w, "sub_created", [NoArg EXCEPT !.c = OwnerOf(s), !.sref = s, !.sd = st],
              B2S(r.ret), r.exc)
    /\ UNCHANGED <<proc, seen>>

SubDeleted(E, s) ==
  \E e \in E :
    \E r \in {handle_subscription_deleted(World(e), s)} :
    /\ Commit(r.w, "sub_deleted", [NoArg EXCEPT !.c = OwnerOf(s), !.sref = s],
              r.ret, r.exc)
    /\ UNCHANGED <<proc, seen>>

PaymentFailed(sref) ==
  \E r \in {handle_payment_failed(World(ExtOk), sref)} :
  /\ Commit(r.w, "payment_failed", [NoArg EXCEPT !.sref = sref], r.ret, r.exc)
  /\ UNCHANGED <<proc, seen>>

InvoicePaid(E, c, sref) ==
  \E e \in E :
    \E r \in {handle_invoice_paid(World(e), c, sref)} :
    /\ Commit(r.w, "invoice_paid", [NoArg EXCEPT !.c = c, !.sref = sref],
              B2S(r.ret), r.exc)
    /\ UNCHANGED <<proc, seen>>

\* ensure_instance_provisioned called on its own.
EnsureCall(E, c, sref, payment_confirmed) ==
  \E e \in E :
    \E r \in {ensure_instance_provisioned(World(e), c, sref, payment_confirmed)} :
    /\ Commit(r.w, "ensure", [NoArg EXCEPT !.c = c, !.sref = sref,
                                           !.flag = payment_confirmed],
              B2S(r.ret), r.exc)
    /\ UNCHANGED <<proc, seen>>

\* InstanceViewSet.start / stop / restart and the admin actions of the same
\* names: the status filter, then the driver operation.
Start(E, i) ==
  /\ inst[i].id # 0 /\ inst[i].status \in {"stopped", "error"}
  /\ \E e \in E :
       \E r \in {start_instance(World(e), inst[i])} :
       Commit(r.w, "start", [NoArg EXCEPT !.i = i], B2S(r.ret), r.exc)
  /\ UNCHANGED <<proc, seen>>

Stop(E, i) ==
  /\ inst[i].id # 0 /\ inst[i].status = "running"
  /\ \E e \in E :
       \E r \in {stop_instance(World(e), inst[i])} :
       Commit(r.w, "stop", [NoArg EXCEPT !.i = i], B2S(r.ret), r.exc)
  /\ UNCHANGED <<proc, seen>>

Restart(E, i) ==
  /\ inst[i].id # 0 /\ inst[i].status = "running"
  /\ \E e \in E :
       \E r \in {restart_instance(World(e), inst[i])} :
       Commit(r.w, "restart", [NoArg EXCEPT !.i = i], B2S(r.ret), r.exc)
  /\ UNCHANGED <<proc, seen>>

\* DockerManager.stop_instance called on an instance in any status.
StopCall(E, i) ==
  /\ inst[i].id # 0
  /\ \E e \in E :
       \E r \in {stop_instance(World(e), inst[i])} :
       Commit(r.w, "stop_call", [NoArg EXCEPT !.i = i], B2S(r.ret), r.exc)
  /\ UNCHANGED <<proc, seen>>

SyncStatus(E) ==
  /\ \E e \in E : \E r \in {sync_status(World(e))} :
       Commit(r.w, "sync", NoArg, r.ret, r.exc)
  /\ UNCHANGED <<proc, seen>>

Cleanup(E) ==
  /\ \E e \in E : \E w \in {cleanup(World(e))} :
       Commit(w, "cleanup", NoArg, "", FALSE)
  /\ UNCHANGED <<proc, seen>>

Destroy(E, sd, hard) ==
  \E e \in E :
    \E r \in {destroy_instance(World(e), sd, hard)} :
    /\ Commit(r.w, "destroy", [NoArg EXCEPT !.sd = sd, !.flag = hard], r.ret, r.exc)
    /\ UNCHANGED <<proc, seen>>

\* The runtime outside the orchestrator: a container is removed, or exits.
CtrGone(sd) ==
  /\ ctr[sd].id # NoCid
  /\ ctr' = [ctr EXCEPT ![sd] = NoCtr]
  /\ last' = [NoLast EXCEPT !.op = "ctr_gone", !.arg.sd = sd]
  /\ UNCHANGED <<inst, nextInst, cust, subs, nextCid, nginx, certs, sent, proc, seen>>

CtrExit(sd) ==
  /\ ctr[sd].state = "running"
  /\ ctr' = [ctr EXCEPT ![sd].state = "exited"]
  /\ last' = [NoLast EXCEPT !.op = "ctr_exit", !.arg.sd = sd]
  /\ UNCHANGED <<inst, nextInst, cust, subs, nextCid, nginx, certs, sent, proc, seen>>

\* The customer portal and the admin's domain actions.
SetDomain(c, raw) ==
  \E r \in {portal_set_custom_domain_api(World(ExtOk), c, raw)} :
  /\ Commit(r.w, "set_domain", [NoArg EXCEPT !.c = c, !.i = r.o.id], r.ret, r.exc)
  /\ UNCHANGED <<proc, seen>>

SetupDomain(E, i) ==
  /\ inst[i].id # 0
  /\ \E e \in E :
       \E r \in {setup_custom_domain(World(e), inst[i])} :
       Commit(r.w, "setup", [NoArg EXCEPT !.i = i], r.ret, r.exc)
  /\ UNCHANGED <<proc, seen>>

RemoveDomain(E, i, delete_certificate) ==
  /\ inst[i].id # 0
  /\ \E e \in E :
       \E r \in {remove_custom_domain(World(e), inst[i], delete_certificate)} :
       Commit(r.w, "remove", [NoArg EXCEPT !.i = i, !.flag = delete_certificate],
              r.ret, r.exc)
  /\ UNCHANGED <<proc, seen>>

RetrySsl(E, i) ==
  /\ inst[i].id # 0
  /\ \E e \in E :
       \E r \in {retry_ssl(World(e), inst[i])} :
       Commit(r.w, "retry_ssl", [NoArg EXCEPT !.i = i], r.ret, r.exc)
  /\ UNCHANGED <<proc, seen>>

\* Two deliveries of invoice.paid handled by two workers: each runs
\* handle_invoice_paid and ensure_instance_provisioned in steps, every step
\* one access to the ledger or one external call, holding the Instance
\* object it read at the start.
RaceBegin(E, p, c) ==
  /\ proc[p].pc = "idle"
  /\ \E e \in E :
       \E d \in {EnsureDecide(InvoicePaidRecover(World(e), c, c), c, c, TRUE)} :
         /\ Commit(d.w, "race_begin", [NoArg EXCEPT !.c = c], d.ret, FALSE)
         /\ proc' = [proc EXCEPT ![p] =
                       IF d.ret = "work"
                         THEN [Idle EXCEPT !.pc = "provision", !.c = c, !.o = d.o]
                       ELSE Idle]
  /\ UNCHANGED seen

\* provision_instance up to the read of the ports in use.
RaceCreating(p) ==
  /\ proc[p].pc = "provision"
  /\ IF proc[p].o.status = "running"
       THEN /\ Commit(World(ExtOk), "race_running", [NoArg EXCEPT !.c = proc[p].c],
                      "", FALSE)
            /\ proc' = [proc EXCEPT ![p].pc = "email"]
     ELSE \E b \in {ProvBegin(World(ExtOk), proc[p].o)} :
            /\ Commit(b.w, "race_creating", [NoArg EXCEPT !.c = proc[p].c], "", FALSE)
            /\ proc' = [proc EXCEPT ![p].pc = "alloc", ![p].o = b.o,
                                    ![p].used = UsedPorts(b.w, b.o.id)]
  /\ UNCHANGED seen

\* The port write, containers.run and the routing file.
RaceRun(E, p) ==
  /\ proc[p].pc = "alloc"
  /\ \E e \in E :
       \E r \in {EnsureRoute(ProvRun(AllocWrite(World(e), proc[p].o, proc[p].used)))} :
         IF r.exc
           THEN /\ Commit(EnsureExcept(r.w, r.o).w, "race_run",
                          [NoArg EXCEPT !.c = proc[p].c], "failed", TRUE)
                /\ proc' = [proc EXCEPT ![p] = Idle]
         ELSE /\ Commit(r.w, "race_run", [NoArg EXCEPT !.c = proc[p].c], "ok", FALSE)
              /\ proc' = [proc EXCEPT ![p].pc = "email", ![p].o = r.o]
  /\ UNCHANGED seen

RaceEmail(E, p) ==
  /\ proc[p].pc = "email"
  /\ \E e \in E : \E m \in {EnsureEmail(World(e), proc[p].o)} :
       /\ Commit(m.w, "race_email", [NoArg EXCEPT !.c = proc[p].c], "", FALSE)
       /\ proc' = [proc EXCEPT ![p].pc = "save", ![p].o = m.o]
  /\ UNCHANGED seen

RaceSave(p) ==
  /\ proc[p].pc = "save"
  /\ \E x \in {EnsureSave(World(ExtOk), proc[p].o)} :
       Commit(x.w, "race_save", [NoArg EXCEPT !.c = proc[p].c], "", FALSE)
  /\ proc' = [proc EXCEPT ![p] = Idle]
  /\ UNCHANGED seen

\* One checkout.session.completed and one invoice.paid per customer, in
\* either order; seen[c].ok: every collaborator answered well so far and the
\* checkout created the instance.
Delivered(c) == {seen[c].events[k] : k \in DOMAIN seen[c].events}

OrderCheckout(E, c, sd, sn) ==
  /\ "checkout" \notin Delivered(c)
  /\ \E e \in E : \E r \in {handle_checkout_completed(World(e), c, sd, sn, c)} :
       /\ Commit(r.w, "order_checkout", [NoArg EXCEPT !.c = c, !.sd = sd, !.sref = c],
                 r.ret, r.exc)
       /\ seen' = [seen EXCEPT ![c] =
                     [events |-> Append(@.events, "checkout"),
                      ok |-> @.ok /\ e = ExtOk /\ r.ret = "created"]]
  /\ UNCHANGED proc

OrderPaid(E, c) ==
  /\ "paid" \notin Delivered(c)
  /\ \E e \in E : \E r \in {handle_invoice_paid(World(e), c, c)} :
       /\ Commit(r.w, "order_paid", [NoArg EXCEPT !.c = c, !.sref = c],
                 B2S(r.ret), r.exc)
       /\ seen' = [seen EXCEPT ![c] =
                     [events |-> Append(@.events, "paid"), ok |-> @.ok /\ e = ExtOk]]
  /\ UNCHANGED proc

\* --------------------------------------------------------- specifications
\* The instance lifecycle of one customer: billing events, the driver
\* operations behind the API and the admin, the maintenance commands, and
\* the runtime losing or stopping a container.
Next ==
  \/ \E c \in Focus, sd \in Subdomains, sn \in SiteNames :
       Checkout(ExtBilling, c, sd, sn, c)
  \/ \E c \in Focus : InvoicePaid(ExtBilling, c, c)
  \/ \E s \in Focus : SubDeleted(ExtDocker, s)
  \/ \E i \in InstIds : Start(ExtDocker, i)
  \/ \E i \in InstIds : Stop(ExtDocker, i)
  \/ \E i \in InstIds : Restart(ExtDocker, i)
  \/ \E i \in InstIds : StopCall(ExtDocker, i)
  \/ SyncStatus(ExtDocker)
  \/ Cleanup(ExtDocker)
  \/ \E sd \in Subdomains, hard \in BOOLEAN : Destroy(ExtDocker, sd, hard)
  \/ \E sd \in Subdomains : CtrGone(sd)
  \/ \E sd \in Subdomains : CtrExit(sd)

Spec == Init /\ [][Next]_vars

\* The billing events of one customer and the ensure procedure on its own.
NextBilling ==
  \/ \E c \in Focus, sd \in CheckoutSubdomains, sn \in SiteNames, sref \in {NoSub} \cup Focus :
       Checkout(ExtBilling, c, sd, sn, sref)
  \/ \E s \in Focus, st \in EventStatuses : SubCreated(ExtBilling, s, st)
  \/ \E s \in Focus : SubDeleted(ExtDocker, s)
  \/ \E s \in Focus \cup {NoSub} : PaymentFailed(s)
  \/ \E c \in Focus, sref \in {NoSub} \cup Focus : InvoicePaid(ExtBilling, c, sref)
  \/ \E c \in Focus, sref \in {NoSub} \cup Focus, pc \in BOOLEAN :
       EnsureCall(ExtBilling, c, sref, pc)

SpecBilling == Init /\ [][NextBilling]_vars

\* Custom domains on provisioned instances.
NextDomain ==
  \/ \E c \in Focus, sd \in Subdomains, sn \in SiteNames : Checkout({ExtOk}, c, sd, sn, c)
  \/ \E c \in Focus, raw \in RawDomains : SetDomain(c, raw)
  \/ \E i \in InstIds : SetupDomain(ExtDomain, i)
  \/ \E i \in InstIds, del \in BOOLEAN : RemoveDomain(ExtDomain, i, del)
  \/ \E i \in InstIds : RetrySsl(ExtDomain, i)
  \/ \E sd \in Subdomains : CtrGone(sd)

SpecDomain == Init /\ [][NextDomain]_vars

\* Concurrent workers on pending instances.
NextRace ==
  \/ \E c \in Custs, sd \in Subdomains, sn \in SiteNames :
       Checkout(ExtUnpaid, c, sd, sn, c)
  \/ \E p \in Procs, c \in Custs : RaceBegin({ExtOk}, p, c)
  \/ \E p \in Procs : RaceCreating(p)
  \/ \E p \in Procs : RaceRun({ExtOk}, p)
  \/ \E p \in Procs : RaceEmail({ExtOk}, p)
  \/ \E p \in Procs : RaceSave(p)

SpecRace == Init /\ [][NextRace]_vars

\* The two first billing events of each customer, in either order.
NextOrder ==
  \/ \E c \in Custs, sd \in Subdomains, sn \in SiteNames :
       OrderCheckout(ExtBilling, c, sd, sn)
  \/ \E c \in Custs : OrderPaid(ExtBilling, c)

SpecOrder == Init /\ [][NextOrder]_vars

\* Overlapping units of work on one instance, the mail transport failing at
\* times: two invoice.paid workers and the admin's resend action.
ResendWelcome(E, i) ==
  /\ inst[i].id # 0
  /\ \E e \in E :
       \E r \in {resend_welcome_email(World(e), inst[i])} :
       Commit(r.w, "resend", [NoArg EXCEPT !.i = i], r.ret, r.exc)
  /\ UNCHANGED <<proc, seen>>

\* send_welcome_email called on its own; did holds "error_log" when the call
\* wrote exactly one AuditLog entry, of action error, on the instance.
SendWelcome(E, i) ==
  /\ inst[i].id # 0
  /\ \E e \in E, portal_password \in BOOLEAN :
       \E r \in {send_welcome_email(World(e), inst[i], portal_password)} :
       Commit(IF r.w.out.logs = <<<<i, "error">>>> THEN Did(r.w, "error_log") ELSE r.w,
              "send_welcome", [NoArg EXCEPT !.i = i], B2S(r.ret), r.exc)
  /\ UNCHANGED <<proc, seen>>

NextStale ==
  \/ \E c \in Focus, sd \in Subdomains, sn \in SiteNames :
       Checkout(ExtUnpaid, c, sd, sn, c)
  \/ \E p \in Procs, c \in Focus : RaceBegin({ExtOk}, p, c)
  \/ \E p \in Procs : RaceCreating(p)
  \/ \E p \in Procs : RaceRun({ExtOk}, p)
  \/ \E p \in Procs : RaceEmail(ExtMail, p)
  \/ \E p \in Procs : RaceSave(p)
  \/ \E i \in InstIds : ResendWelcome(ExtMail, i)
  \/ \E i \in InstIds : SendWelcome(ExtMail, i)

SpecStale == Init /\ [][NextStale]_vars

\* Deliveries to the webhook endpoint, valid or not, for every customer, and
\* the operator's soft delete.
Webhook(E, q) ==
  \E e \in E :
    \E r \in {stripe_webhook(World(e), q)} :
    /\ Commit(r.w, "webhook",
              [NoArg EXCEPT !.c = q.c, !.sd = q.sd, !.sref = q.c]
                @@ [sig |-> q.sig, wellformed |-> q.wellformed, type |-> q.type],
              r.ret, r.exc)
    /\ UNCHANGED <<proc, seen>>

NextWebhook ==
  \/ \E q \in Deliveries : Webhook({ExtOk}, q)
  \/ \E sd \in Subdomains : Destroy({ExtOk}, sd, FALSE)

SpecWebhook == Init /\ [][NextWebhook]_vars

\* The container driver called directly on an instance in any status, next
\* to the API's start and stop and the runtime losing or stopping containers.
Provision(E, i) ==
  /\ inst[i].id # 0
  /\ \E e \in E :
       \E r \in {provision_instance(World(e), inst[i])} :
       Commit(IF r.w.out.logs[Len(r.w.out.logs)] = <<i, "error">>
                THEN Did(r.w, "error_log") ELSE r.w,
              "provision", [NoArg EXCEPT !.i = i], B2S(r.ret), r.exc)
  /\ UNCHANGED <<proc, seen>>

\* health_check called on an instance; did holds "health_log" when the call
\* wrote an AuditLog health_check entry on the instance.
HealthCheck(E, i, probe) ==
  /\ inst[i].id # 0
  /\ \E e \in E :
       \E r \in {health_check(World(e), inst[i], probe)} :
       Commit(IF r.w.out.logs = <<<<i, "health_check">>>> THEN Did(r.w, "health_log")
              ELSE r.w,
              "health_check", [NoArg EXCEPT !.i = i, !.sd = probe], B2S(r.ret), r.exc)
  /\ UNCHANGED <<proc, seen>>

NextDriver ==
  \/ \E c \in Focus, sd \in Subdomains, sn \in SiteNames :
       Checkout(ExtUnpaid \cup {ExtOk}, c, sd, sn, c)
  \/ \E i \in InstIds : Provision(ExtDocker, i)
  \/ \E i \in InstIds : Start(ExtDocker, i)
  \/ \E i \in InstIds : Stop(ExtDocker, i)
  \/ \E i \in InstIds, probe \in {"200", "500", "refused"} :
       HealthCheck(ExtDocker, i, probe)
  \/ \E sd \in Subdomains : CtrGone(sd)
  \/ \E sd \in Subdomains : CtrExit(sd)

SpecDriver == Init /\ [][NextDriver]_vars

\* The same billing events delivered to the customers in different orders
\* and multiplicities, every collaborator answering well; each customer
\* checks out a subdomain of its own. seen[c].events: the delivery order.
SubdomainFor(c) == IF c = Min(Custs) THEN "a" ELSE "b"

Replay(c, t) ==
  /\ Len(seen[c].events) < MaxEvents
  /\ \E r \in {stripe_webhook(World(ExtOk),
                   [sig |-> TRUE, wellformed |-> TRUE, type |-> t, c |-> c,
                    sd |-> SubdomainFor(c)])} :
       Commit(r.w, "replay", [NoArg EXCEPT !.c = c, !.sd = t], r.ret, r.exc)
  /\ seen' = [seen EXCEPT ![c].events = Append(@, t)]
  /\ UNCHANGED proc

NextReorder == \E c \in Custs, t \in EventTypes : Replay(c, t)

SpecReorder == Init /\ [][NextReorder]_vars

\* Checkouts of every customer and the operator's soft and hard deletes.
NextReuse ==
  \/ \E c \in Custs, sd \in Subdomains, sn \in SiteNames :
       Checkout({ExtOk}, c, sd, sn, c)
  \/ \E sd \in Subdomains, hard \in BOOLEAN : Destroy({ExtOk}, sd, hard)

SpecReuse == Init /\ [][NextReuse]_vars

\* Two portal requests in flight: portal_set_custom_domain_api up to its
\* ownership check, and its save. Nothing in the view holds a lock or a
\* transaction between the two, and custom_domain has no unique constraint.
DomainBegin(p, c, raw) ==
  /\ proc[p].pc = "idle"
  /\ \E r \in {portal_set_custom_domain_api(World(ExtOk), c, raw)} :
       IF r.ret = "saved"
         THEN /\ Commit(World(ExtOk), "domain_checked",
                        [NoArg EXCEPT !.c = c, !.i = r.o.id], "", FALSE)
              /\ proc' = [proc EXCEPT ![p] = [Idle EXCEPT !.pc = "domain_save",
                                                         !.c = c, !.o = r.o]]
       ELSE /\ Commit(r.w, "set_domain", [NoArg EXCEPT !.c = c, !.i = r.o.id],
                      r.ret, r.exc)
            /\ UNCHANGED proc
  /\ UNCHANGED seen

DomainSave(p) ==
  /\ proc[p].pc = "domain_save"
  /\ Commit(Save(World(ExtOk), proc[p].o, DomainFields), "set_domain",
            [NoArg EXCEPT !.c = proc[p].c, !.i = proc[p].o.id], "saved", FALSE)
  /\ proc' = [proc EXCEPT ![p] = Idle]
  /\ UNCHANGED seen

PortalDomains == {"x.com", "https://X.com/", "y.com"}
NextPortal ==
  \/ \E c \in Custs : Checkout({ExtOk}, c, SubdomainFor(c), "Shop", c)
  \/ \E p \in Procs, c \in Custs, raw \in PortalDomains : DomainBegin(p, c, raw)
  \/ \E p \in Procs : DomainSave(p)

SpecPortal == Init /\ [][NextPortal]_vars


\* portal_verify_custom_domain_api in two steps: the view reads
\* request.portal_customer.instance and checks that a domain is set; then
\* setup_custom_domain works on that object. Nothing holds a lock or
\* re-reads the row between the two, so other requests may run in between.
VerifyBegin(p, i) ==
  /\ proc[p].pc = "idle"
  /\ inst[i].id # 0 /\ inst[i].custom_domain # ""
  /\ Commit(World(ExtOk), "verify_loaded", [NoArg EXCEPT !.i = i], "", FALSE)
  /\ proc' = [proc EXCEPT ![p] = [Idle EXCEPT !.pc = "verify_run", !.o = inst[i]]]
  /\ UNCHANGED seen

VerifyRun(E, p) ==
  /\ proc[p].pc = "verify_run"
  /\ \E e \in E :
       \E r \in {setup_custom_domain(World(e), proc[p].o)} :
       Commit(r.w, "setup", [NoArg EXCEPT !.i = proc[p].o.id], r.ret, r.exc)
  /\ proc' = [proc EXCEPT ![p] = Idle]
  /\ UNCHANGED seen

NextInterleave ==
  \/ \E c \in Focus, sd \in Subdomains, sn \in SiteNames : Checkout({ExtOk}, c, sd, sn, c)
  \/ \E c \in Focus, raw \in PortalDomains : SetDomain(c, raw)
  \/ \E i \in InstIds : VerifyBegin(1, i)
  \/ VerifyRun(ExtDomain, 1)
  \/ \E i \in InstIds, del \in BOOLEAN : RemoveDomain(ExtDomain, i, del)
  \/ \E i \in InstIds : RetrySsl(ExtDomain, i)

SpecInterleave == Init /\ [][NextInterleave]_vars


\* Two checkout.session.completed events in flight: handle_checkout_completed
\* up to its read of customer.instance, and from there on. Nothing in the
\* handler holds a lock or a transaction between the two, and
\* Instance.customer is a plain foreign key.
CheckoutBegin(p, c, sd) ==
  /\ proc[p].pc = "idle"
  /\ \E r \in {handle_checkout_completed(World(ExtOk), c, sd, "Shop", c)} :
       IF r.ret \in {"no_subdomain", "invalid", "taken"}
         THEN /\ Commit(r.w, "checkout", [NoArg EXCEPT !.c = c, !.sd = sd, !.sref = c],
                        r.ret, r.exc)
              /\ UNCHANGED proc
       ELSE \E w1 \in {_get_or_create_customer(Log(World(ExtOk), 0, "webhook"), c)} :
              /\ Commit(w1, "checkout_read", [NoArg EXCEPT !.c = c, !.sd = sd, !.sref = c],
                        "", FALSE)
              /\ proc' = [proc EXCEPT ![p] = [Idle EXCEPT !.pc = "checkout_write", !.c = c,
                                                         !.o = CustInstance(w1, c),
                                                         !.sd = sd]]
  /\ UNCHANGED seen

CheckoutWrite(p) ==
  /\ proc[p].pc = "checkout_write"
  /\ \E r \in {CheckoutReconcile(World(ExtOk), proc[p].o, proc[p].c, proc[p].sd,
                                 "Shop", proc[p].c)} :
       Commit(r.w, "checkout", [NoArg EXCEPT !.c = proc[p].c, !.sd = proc[p].sd,
                                             !.sref = proc[p].c], r.ret, r.exc)
  /\ proc' = [proc EXCEPT ![p] = Idle]
  /\ UNCHANGED seen

NextOverlap ==
  \/ \E p \in Procs, c \in Focus, sd \in Subdomains \cup {""} : CheckoutBegin(p, c, sd)
  \/ \E p \in Procs : CheckoutWrite(p)
  \/ \E sd \in Subdomains, hard \in BOOLEAN : Destroy({ExtOk}, sd, hard)

SpecOverlap == Init /\ [][NextOverlap]_vars

\* A deployment whose configured range holds a single port: the checkouts
\* of every customer, the driver's provision and the allocator called
\* directly, and the operator's soft and hard deletes.
ExtOnePort == {[e EXCEPT !.nports = 1] : e \in ExtDocker}
Allocate(E, i) ==
  /\ inst[i].id # 0
  /\ \E e \in E :
       \E r \in {allocate_port(World(e), inst[i])} :
       Commit(r.w, "allocate", [NoArg EXCEPT !.i = i],
              IF r.exc THEN "" ELSE B2S(r.ret = r.w.inst[i].port), r.exc)
  /\ UNCHANGED <<proc, seen>>

NextPorts ==
  \/ \E c \in Custs : Checkout({[ExtOk EXCEPT !.nports = 1]}, c, SubdomainFor(c), "Shop", c)
  \/ \E i \in InstIds : Provision(ExtOnePort, i)
  \/ \E i \in InstIds : Allocate({[ExtOk EXCEPT !.nports = 1]}, i)
  \/ \E sd \in Subdomains, hard \in BOOLEAN :
       Destroy({[ExtOk EXCEPT !.nports = 1]}, sd, hard)

SpecPorts == Init /\ [][NextPorts]_vars

\* Two workers provisioning the first customer's pending instance while the
\* operator hard-deletes instances: each worker allocates with the Instance
\* object and the ports in use it read earlier.
NextRelease ==
  \/ \E c \in Custs : Checkout(ExtUnpaid \cup {ExtOk}, c, SubdomainFor(c), "Shop", c)
  \/ \E p \in Procs : RaceBegin({ExtOk}, p, Min(Custs))
  \/ \E p \in Procs : RaceCreating(p)
  \/ \E p \in Procs : RaceRun({ExtOk}, p)
  \/ \E p \in Procs : RaceEmail({ExtOk}, p)
  \/ \E p \in Procs : RaceSave(p)
  \/ \E sd \in Subdomains : Destroy({ExtOk}, sd, TRUE)

SpecRelease == Init /\ [][NextRelease]_vars

\* ------------------------------------------------------------------ claims
\* The columns the idempotence claim compares.
LedgerOf(r) == [status |-> r.status, port |-> r.port, container_id |-> r.container_id,
                welcome_email_sent |-> r.welcome_email_sent]

\* C1: two calls of ensure_instance_provisioned in immediate succession with
\* the same customer, subscription reference and payment_confirmed, the
\* collaborators answering the same way, create at most one container and
\* send at most one welcome email between them, and the second call leaves
\* instance status, port, container identity, welcome_email_sent and
\* subscription status as the first call left them.
C1_EnsureIdempotent ==
  [][(last.op = "ensure" /\ last'.op = "ensure"
      /\ last'.arg = last.arg /\ last'.env = last.env)
     => /\ last.created + last'.created <= 1
        /\ last.mails + last'.mails <= 1
        /\ \A i \in InstIds : LedgerOf(inst'[i]) = LedgerOf(inst[i])
        /\ \A s \in SubRefs : subs'[s].status = subs[s].status]_vars

\* C2: no two non-deleted instances ever hold the same port, also when the
\* reads of the ports in use and the port writes of concurrent provisionings
\* of different instances interleave.
C2_PortsDistinct ==
  \A i, j \in InstIds :
    (i # j /\ inst[i].id # 0 /\ inst[j].id # 0
     /\ inst[i].status # "deleted" /\ inst[j].status # "deleted"
     /\ inst[i].port # NoPort)
    => inst[i].port # inst[j].port

\* Two workers read the ports in use before either wrote: the second write
\* of the same port was refused and its provisioning ended in error.
C2_StaleReadRefused ==
  /\ last.op = "race_run" /\ last.exc
  /\ \E i, j \in InstIds :
       /\ i # j /\ inst[i].id # 0 /\ inst[j].id # 0
       /\ inst[i].status = "error" /\ inst[i].port = NoPort
       /\ inst[j].status # "deleted" /\ inst[j].port = PORT_RANGE_START

\* C3: an invoice.paid handled before the customer's checkout creates no
\* instance, no container and no mail and reports the deferral; and once
\* both events of a customer are handled, in either order, every
\* collaborator having answered well, the customer's instance is running on
\* a running container with its routing file, the welcome mail was sent once
\* and the subscription is active.
C3_OrderConverges ==
  /\ [][\A c \in Custs :
          (last'.op = "order_paid" /\ last'.arg.c = c /\ seen[c].events = <<>>)
          => /\ \A i \in InstIds : inst'[i].id # 0 => inst'[i].customer # c
             /\ last'.ret = "false"
             /\ last'.created = 0 /\ last'.mails = 0]_vars
  /\ [](\A c \in Custs :
          (Len(seen[c].events) = 2 /\ seen[c].ok)
          => \E i \in InstIds :
               /\ inst[i].id # 0 /\ inst[i].customer = c
               /\ inst[i].status = "running" /\ inst[i].welcome_email_sent
               /\ sent[i] = 1
               /\ ctr[inst[i].subdomain].id = inst[i].container_id
               /\ ctr[inst[i].subdomain].state = "running"
               /\ nginx[inst[i].subdomain].exists
               /\ subs[c].exists /\ subs[c].status = "active")

\* invoice.paid came first and was deferred, the checkout came second, and
\* the instance runs with its welcome mail sent.
C3_PaidFirstConverged ==
  \E c \in Custs :
    /\ seen[c].events = <<"paid", "checkout">> /\ seen[c].ok
    /\ \E i \in InstIds : inst[i].customer = c /\ inst[i].status = "running"
                          /\ inst[i].welcome_email_sent

\* C4: two units of work on one instance do not interleave: whatever way
\* two concurrent deliveries of invoice.paid for one customer are scheduled,
\* no instance gets more than one container and no instance's welcome mail
\* is delivered more than once.
C4_OncePerInstance ==
  /\ nextCid <= nextInst
  /\ \A i \in InstIds : sent[i] <= 1

\* C5: setup_custom_domain on a domain that is verified or verifies in this
\* call, the preflight passing and the routing write succeeding, with the
\* certificate issuance failing: the call does not raise, custom_domain_ssl
\* stays false, custom_domain_verified is true and the instance's routing
\* file is in place on its port.
C5_TlsFailureNonFatal ==
  [][\A i \in InstIds :
       (/\ last'.op = "setup" /\ last'.arg.i = i
        /\ inst[i].custom_domain # "" /\ ~inst[i].custom_domain_ssl
        /\ (inst[i].custom_domain_verified \/ last'.env.dns)
        /\ last'.ret \notin {"nginx_conflict", "owned"}
        /\ last'.env.nginx
        /\ ~last'.env.certbot /\ inst[i].custom_domain \notin certs)
       => /\ ~last'.exc
          /\ ~inst'[i].custom_domain_ssl /\ inst'[i].custom_domain_verified
          /\ nginx'[inst[i].subdomain].exists
          /\ nginx'[inst[i].subdomain].port = inst[i].port]_vars

\* C6: remove_custom_domain on an instance with a custom domain ends with
\* custom_domain empty and both flags false, also when the routing
\* regeneration or the container restart fails; and no persisted row has an
\* empty custom_domain with one of the flags still set.
C6_RemovalClearsAll ==
  /\ [][\A i \in InstIds :
          (last'.op = "remove" /\ last'.arg.i = i /\ inst[i].custom_domain # "")
          => /\ ~last'.exc
             /\ inst'[i].custom_domain = ""
             /\ ~inst'[i].custom_domain_verified /\ ~inst'[i].custom_domain_ssl]_vars
  /\ [](\A i \in InstIds :
          inst[i].custom_domain = ""
          => ~inst[i].custom_domain_verified /\ ~inst[i].custom_domain_ssl)

\* A removal whose routing regeneration failed, and one whose container
\* restart failed, the domain fields cleared.
C6_RemovedDespiteFailure ==
  /\ last.op = "remove" /\ last.ret = "removed"
  /\ ~last.env.nginx /\ last.env.docker = "down"
  /\ inst[last.arg.i].custom_domain = ""
  /\ nginx[inst[last.arg.i].subdomain].domain # ""

\* C7: deleted is terminal: a row in status deleted keeps that status in
\* every step (or is removed from the table).
C7_DeletedTerminal ==
  [][\A i \in InstIds :
       (inst[i].id # 0 /\ inst[i].status = "deleted")
       => (inst'[i].id = 0 \/ inst'[i].status = "deleted")]_vars

\* C8: a checkout for a subdomain that a non-deleted instance holds is
\* rejected: no row is created, no row changes, no container is created and
\* no mail is sent.
C8_SecondCheckoutRejected ==
  [][(/\ last'.op = "checkout"
      /\ \E i \in InstIds : /\ inst[i].id # 0 /\ inst[i].status # "deleted"
                            /\ inst[i].subdomain = last'.arg.sd)
     => /\ last'.ret = "taken" /\ ~last'.exc
        /\ inst' = inst /\ nextInst' = nextInst /\ ctr' = ctr
        /\ last'.created = 0 /\ last'.mails = 0]_vars

\* The same customer's checkout for its own subdomain was rejected.
C8_SameMetadataRejected ==
  /\ last.op = "checkout" /\ last.ret = "taken"
  /\ \E i \in InstIds : /\ inst[i].id # 0 /\ inst[i].status # "deleted"
                        /\ inst[i].subdomain = last.arg.sd
                        /\ inst[i].customer = last.arg.c

\* C9: stop_instance, the runtime answering, on an instance whose container
\* is gone from the runtime, or on an instance already stopped, returns True
\* without raising and the status is stopped.
C9_StopMissingContainer ==
  [][\A i \in InstIds :
       (/\ last'.op = "stop_call" /\ last'.arg.i = i
        /\ last'.env.docker # "down"
        /\ \/ /\ inst[i].container_id # NoCid
              /\ \A sd \in Subdomains : ctr[sd].id # inst[i].container_id
           \/ inst[i].status = "stopped")
       => /\ last'.ret = "true" /\ ~last'.exc
          /\ inst'[i].status = "stopped"]_vars

\* stop_instance returned True on an instance that was running on a
\* container the runtime no longer has.
C9_StoppedWithoutContainer ==
  /\ last.op = "stop_call" /\ last.ret = "true"
  /\ inst[last.arg.i].status = "stopped"
  /\ inst[last.arg.i].container_id # NoCid
  /\ \A sd \in Subdomains : ctr[sd].id # inst[last.arg.i].container_id

\* C10: setup_custom_domain on an unverified custom domain whose DNS check
\* fails raises, leaves custom_domain_verified and custom_domain_ssl false
\* and the ledger as it was, and runs no routing write, no certificate
\* issuance and no container restart.
C10_DnsFailureMutatesNothing ==
  [][\A i \in InstIds :
       (/\ last'.op = "setup" /\ last'.arg.i = i
        /\ inst[i].custom_domain # "" /\ ~inst[i].custom_domain_verified
        /\ last'.ret \notin {"nginx_conflict", "owned"}
        /\ ~last'.env.dns)
       => /\ last'.exc /\ last'.ret = "dns_failed"
          /\ ~inst'[i].custom_domain_verified /\ ~inst'[i].custom_domain_ssl
          /\ inst' = inst
          /\ last'.did = {}
          /\ nginx' = nginx /\ certs' = certs /\ ctr' = ctr]_vars

\* A setup that stopped at the DNS check on a routed, running instance.
C10_DnsCheckFailed ==
  /\ last.op = "setup" /\ last.ret = "dns_failed" /\ last.exc
  /\ inst[last.arg.i].status = "running"
  /\ nginx[inst[last.arg.i].subdomain].exists

\* C11: the welcome flag turns true only in a unit of work that delivered the
\* mail, and every paid or checkout event for a customer whose instance is
\* running with the flag still false attempts the send again: the flag is
\* true afterwards exactly when that send succeeded.
C11_EmailRetried ==
  [][\A i \in InstIds :
       /\ (inst[i].id # 0 /\ inst'[i].id # 0
           /\ ~inst[i].welcome_email_sent /\ inst'[i].welcome_email_sent)
          => last'.mails >= 1
       /\ (/\ inst[i].id # 0 /\ inst[i].status = "running"
           /\ ~inst[i].welcome_email_sent
           /\ last'.arg.c = inst[i].customer
           /\ SubsOf([subs |-> subs], inst[i].customer) # {}
           /\ \/ last'.op = "invoice_paid"
              \/ /\ last'.op = "checkout"
                 /\ last'.arg.sd = inst[i].subdomain /\ last'.arg.sref = NoSub
                 /\ \A s \in SubsOf([subs |-> subs], inst[i].customer) :
                      subs[s].status = "active")
          => /\ "mail" \in last'.did
             /\ inst'[i].welcome_email_sent <=> last'.mails = 1]_vars

\* C12: welcome_email_sent is monotonic: a row whose flag is true keeps it
\* true in every step, also when overlapping units of work hold copies of
\* the row read before the flag was set.
C12_WelcomeFlagMonotonic ==
  [][\A i \in InstIds :
       (inst[i].id # 0 /\ inst'[i].id # 0 /\ inst[i].welcome_email_sent)
       => inst'[i].welcome_email_sent]_vars

\* C13: a delivery whose signature does not verify or whose payload does not
\* parse is answered 400, runs no handler and changes no table; every other
\* delivery, of an unrecognized type or with a raising handler included, is
\* answered 200 and nothing escapes the endpoint.
C13_WebhookStatus ==
  [][last'.op = "webhook" =>
       IF last'.arg.sig /\ last'.arg.wellformed
         THEN /\ last'.ret = "200" /\ ~last'.exc
              /\ ("handler" \in last'.did) <=> (last'.arg.type \in EventTypes)
       ELSE /\ last'.ret = "400" /\ ~last'.exc
            /\ last'.did = {}
            /\ inst' = inst /\ cust' = cust /\ subs' = subs /\ ctr' = ctr
            /\ sent' = sent /\ nginx' = nginx]_vars

\* A handler raised inside the endpoint and the delivery was answered 200.
C13_HandlerRaisedAnswered200 ==
  /\ last.op = "webhook" /\ last.ret = "200" /\ "raised" \in last.did

\* C14: only a checkout-completed event creates an Instance row: no other
\* unit of work adds a row, and a paid, subscription-created or ensure step
\* for a customer without an instance is deferred (returns False), creating
\* no container and sending no mail.
C14_OnlyCheckoutCreates ==
  [][/\ last'.op # "checkout"
        => /\ nextInst' = nextInst
           /\ \A i \in InstIds : inst[i].id = 0 => inst'[i].id = 0
     /\ \A c \in Custs :
          (/\ CustRows([inst |-> inst], c) = {}
           /\ last'.op \in {"invoice_paid", "sub_created", "ensure"}
           /\ last'.arg.c = c)
          => /\ last'.ret = "false" /\ ~last'.exc
             /\ last'.created = 0 /\ last'.mails = 0
             /\ CustRows([inst |-> inst'], c) = {}]_vars

\* invoice.paid was deferred for a customer with an active subscription and
\* no checkout so far.
C14_PaidBeforeCheckoutDeferred ==
  /\ last.op = "invoice_paid" /\ last.ret = "false"
  /\ nextInst = 1
  /\ \E s \in SubRefs : subs[s].exists /\ subs[s].status = "active"

\* C15: a call of ensure_instance_provisioned creates a container or sends
\* the welcome mail only when payment_confirmed is true or the provider's
\* latest-invoice check was made and answered paid, the subscription being
\* active afterwards; and it turns a non-active subscription active only
\* under that same condition.
C15_ProvisionOnlyWhenPaid ==
  [][last'.op = "ensure" =>
       LET certain == last'.arg.flag \/ (last'.arg.sref # NoSub /\ last'.env.paid) IN
       /\ (last'.created >= 1 \/ last'.mails >= 1)
          => /\ certain
             /\ \E s \in SubsOf([subs |-> subs'], last'.arg.c) :
                  subs'[s].status = "active"
       /\ \A s \in SubRefs :
            (subs[s].exists /\ subs[s].status # "active" /\ subs'[s].status = "active")
            => certain]_vars

\* C16: provision_instance, the runtime working, on an instance whose
\* container exists (running or stopped) does not raise and leaves the
\* instance running on exactly one container, which it names.
C16_ProvisionTwice ==
  [][\A i \in InstIds :
       (/\ last'.op = "provision" /\ last'.arg.i = i
        /\ last'.env.docker = "ok"
        /\ inst[i].container_id # NoCid
        /\ ctr[inst[i].subdomain].id = inst[i].container_id)
       => /\ ~last'.exc
          /\ inst'[i].status = "running"
          /\ ctr'[inst[i].subdomain].id = inst'[i].container_id
          /\ ctr'[inst[i].subdomain].state = "running"
          /\ last'.created <= 1]_vars

\* The ledger state the convergence claim compares, for one customer.
FinalLedger(c) ==
  [subscription |-> IF subs[c].exists THEN subs[c].status ELSE "none",
   instance |-> CustInstance([inst |-> inst], c).status,
   welcome_email_sent |-> CustInstance([inst |-> inst], c).welcome_email_sent]

\* C17: the reconciler converges under reordering and duplication: two
\* customers that were delivered the same set of billing events, in whatever
\* order and however often, have the same subscription status, instance
\* status and welcome flag.
C17_ReorderConverges ==
  \A c1, c2 \in Custs :
    Delivered(c1) = Delivered(c2) => FinalLedger(c1) = FinalLedger(c2)

\* C18: no two rows of the Instance table, soft-deleted rows included, hold
\* the same subdomain or the same port: the port and the subdomain of a
\* soft-deleted row are never given to another row.
C18_PortSubdomainUnique ==
  \A i, j \in InstIds :
    (i # j /\ inst[i].id # 0 /\ inst[j].id # 0)
    => /\ inst[i].subdomain # inst[j].subdomain
       /\ inst[i].port # NoPort => inst[i].port # inst[j].port

\* An instance was refused the port that a soft-deleted row still holds.
C18_DeletedPortRefused ==
  \E i, j \in InstIds :
    /\ inst[i].id # 0 /\ inst[i].status = "deleted" /\ inst[i].port # NoPort
    /\ inst[j].id # 0 /\ inst[j].status = "error" /\ inst[j].port = NoPort
    /\ last.op = "checkout" /\ last.arg.c = inst[j].customer

\* C19: no two non-deleted instances hold the same non-empty custom_domain,
\* also when two customers' set-custom-domain requests overlap between the
\* ownership check and the save.
C19_CustomDomainUnique ==
  \A i, j \in InstIds :
    (/\ i # j /\ inst[i].id # 0 /\ inst[j].id # 0
     /\ inst[i].status # "deleted" /\ inst[j].status # "deleted"
     /\ inst[i].custom_domain # "")
    => inst[i].custom_domain # inst[j].custom_domain

\* C20: each customer owns at most one instance row, whatever the sequence or
\* interleaving of checkout-completed events, and a row's subdomain never
\* changes after creation.
C20_OneInstancePerCustomer ==
  /\ [](\A c \in Custs : Cardinality({i \in InstIds : inst[i].id # 0 /\ inst[i].customer = c}) <= 1)
  /\ [][\A i \in InstIds :
          (inst[i].id # 0 /\ inst'[i].id # 0) => inst'[i].subdomain = inst[i].subdomain]_vars

\* C21: an instance leaves status error for running only in an explicit start
\* or restart: no billing event handler and no maintenance sweep takes it
\* from error to running.
C21_ErrorLeftOnlyByRetry ==
  [][\A i \in InstIds :
       (inst[i].id # 0 /\ inst[i].status = "error" /\ inst'[i].status = "running")
       => last'.op \in {"start", "restart"}]_vars

\* C22: when setup_custom_domain has completed with the certificate in place
\* (custom_domain_ssl true), the instance's container runs with an
\* allowed-hosts environment that includes the instance's custom domain.
C22_AllowedHostsFollowDomain ==
  \A i \in InstIds :
    (/\ last.op = "setup" /\ last.arg.i = i /\ ~last.exc /\ last.ret = "live"
     /\ inst[i].custom_domain_ssl)
    => /\ ctr[inst[i].subdomain].state = "running"
       /\ ctr[inst[i].subdomain].hosts = inst[i].custom_domain

\* C23: when the container provisioning step inside
\* ensure_instance_provisioned raises (the instance, not running before,
\* ends the call in status error), the exception reaches the caller of
\* ensure_instance_provisioned.
C23_EnsurePropagates ==
  [][\A i \in InstIds :
       (/\ last'.op = "ensure" /\ inst[i].id # 0 /\ inst[i].customer = last'.arg.c
        /\ inst[i].status \notin {"running", "error"} /\ inst'[i].status = "error")
       => last'.exc]_vars

\* C24: send_welcome_email never raises; on a mail-transport failure it
\* returns False and writes one AuditLog error entry on the instance; it
\* returns True only when the send succeeded; it leaves welcome_email_sent
\* (and the rest of the ledger) as it was.
C24_SendWelcomeContract ==
  [][last'.op = "send_welcome"
       => /\ ~last'.exc
          /\ (last'.ret = "true") <=> last'.env.mail
          /\ last'.env.mail => (last'.mails = 1 /\ "error_log" \notin last'.did)
          /\ ~last'.env.mail => (last'.mails = 0 /\ "error_log" \in last'.did)
          /\ inst' = inst]_vars

\* C24 witness: a send that failed in the transport, on an instance whose
\* flag is still false.
C24_TransportFailed ==
  /\ last.op = "send_welcome" /\ ~last.env.mail /\ last.ret = "false"
  /\ ~inst[last.arg.i].welcome_email_sent

\* C25: provision_instance ends in one of two ways. Success: it returns,
\* the instance is running and the identity of the container it created is
\* persisted. Failure (no free port included): it raises, the instance is
\* in status error with a status_message, the row's container identity is
\* what it was, and the failure is logged on the instance.
C25_ProvisionOutcomes ==
  [][\A i \in InstIds :
       (last'.op = "provision" /\ last'.arg.i = i)
       => \/ /\ ~last'.exc /\ last'.ret = "true" /\ last'.created = 1
             /\ inst'[i].status = "running" /\ inst'[i].status_message = ""
             /\ inst'[i].container_id # NoCid
             /\ inst'[i].container_id # inst[i].container_id
             /\ ctr'[inst'[i].subdomain].id = inst'[i].container_id
             /\ ctr'[inst'[i].subdomain].state = "running"
          \/ /\ last'.exc /\ last'.created = 0
             /\ inst'[i].status = "error" /\ inst'[i].status_message # ""
             /\ inst'[i].container_id = inst[i].container_id
             /\ inst'[i].container_name = inst[i].container_name
             /\ "error_log" \in last'.did]_vars

\* C25 witness: a provision that failed because the range has no free port.
C25_FailedForNoPort ==
  \E i, j \in InstIds :
    /\ last.op = "provision" /\ last.arg.i = i /\ last.exc
    /\ last.env.docker = "ok" /\ inst[i].port = NoPort /\ inst[i].status = "error"
    /\ i # j /\ inst[j].status = "running" /\ inst[j].port # NoPort

\* C26: allocate_port on an instance without a port assigns and persists the
\* smallest port of the configured range that no other non-deleted instance
\* holds, and raises only when every port of the range is held by a
\* non-deleted instance.
C26_AllocatesSmallestFree ==
  [][\A i \in InstIds :
       (last'.op = "allocate" /\ last'.arg.i = i /\ inst[i].port = NoPort)
       => LET free == {p \in Ports(last'.env.nports) :
                         \A j \in InstIds :
                           (j # i /\ inst[j].id # 0 /\ inst[j].status # "deleted")
                           => inst[j].port # p} IN
          IF free = {} THEN last'.exc /\ inst' = inst
          ELSE ~last'.exc /\ inst'[i].port = Min(free)]_vars

\* C27: once an instance has a port the port never changes: allocate_port on
\* an instance that has one returns it and writes nothing, and no operation
\* on a row that stays in the ledger changes or clears its port.
C27_PortFixedOnceSet ==
  [][\A i \in InstIds :
       (inst[i].id # 0 /\ inst[i].port # NoPort)
       => /\ inst'[i].id # 0 => inst'[i].port = inst[i].port
          /\ (last'.op = "allocate" /\ last'.arg.i = i)
             => (~last'.exc /\ last'.ret = "true" /\ inst' = inst)]_vars

\* C28: every call of health_check writes an AuditLog health_check entry and
\* the check's timestamp, whatever it returns, and leaves the instance
\* status as it was.
C28_HealthCheckRecorded ==
  [][\A i \in InstIds :
       (last'.op = "health_check" /\ last'.arg.i = i)
       => /\ "health_log" \in last'.did
          /\ "timestamp" \in last'.did /\ inst'[i].last_health_check
          /\ inst'[i].status = inst[i].status]_vars

\* C29: after handle_subscription_deleted for a known subscription the
\* subscription is cancelled with a cancellation time, also when stopping
\* the container failed; the customer's instance keeps its row, port and
\* container identity and is never deleted; it is stopped when it was
\* running and the stop did not fail, and keeps its status otherwise.
C29_SubscriptionDeleted ==
  [][\A s \in SubRefs :
       (last'.op = "sub_deleted" /\ last'.arg.sref = s /\ subs[s].exists)
       => /\ subs'[s].status = "cancelled" /\ subs'[s].cancelled_at
          /\ \A i \in InstIds :
               (inst[i].id # 0 /\ inst[i].customer = subs[s].customer)
               => /\ inst'[i].id = inst[i].id
                  /\ inst'[i].port = inst[i].port
                  /\ inst'[i].container_id = inst[i].container_id
                  /\ inst'[i].container_name = inst[i].container_name
                  /\ ctr'[inst[i].subdomain].id = ctr[inst[i].subdomain].id
                  /\ inst'[i].status =
                       IF inst[i].status = "running" /\ last'.ret # "stop_failed"
                         THEN "stopped" ELSE inst[i].status]_vars

\* C29 witness: the stop of the running instance failed and the
\* subscription is cancelled all the same.
C29_CancelledDespiteStopFailure ==
  /\ last.op = "sub_deleted" /\ last.ret = "stop_failed"
  /\ subs[last.arg.sref].status = "cancelled" /\ subs[last.arg.sref].cancelled_at
  /\ \E i \in InstIds : inst[i].customer = last.arg.c /\ inst[i].status = "running"

\* C30: handle_payment_failed changes nothing but the status of the matching
\* subscription, which becomes past_due: instances, containers, mails sent,
\* customers and every other subscription stay as they were, and with no
\* matching subscription nothing changes at all.
C30_PaymentFailedFrame ==
  [][\A s \in SubRefs :
       (\/ last'.op = "payment_failed" /\ last'.arg.sref = s
        \/ last'.op = "replay" /\ last'.arg.sd = "invoice.payment_failed"
           /\ last'.arg.c = s)
       => /\ inst' = inst /\ ctr' = ctr /\ sent' = sent /\ cust' = cust
          /\ nginx' = nginx /\ certs' = certs
          /\ subs' = IF subs[s].exists THEN [subs EXCEPT ![s].status = "past_due"]
                     ELSE subs]_vars

\* C30 witness: a failed payment on one customer's active subscription, its
\* instance running, while another customer's subscription is active too.
C30_PastDueWhileRunning ==
  \E s, t \in SubRefs :
    /\ last.op = "replay" /\ last.arg.sd = "invoice.payment_failed" /\ last.arg.c = s
    /\ subs[s].exists /\ subs[s].status = "past_due"
    /\ t # s /\ subs[t].exists /\ subs[t].status = "active"
    /\ \E i \in InstIds : inst[i].customer = OwnerOf(s) /\ inst[i].status = "running"

C32_StatusChangeLogged ==
  [][\A i \in InstIds :
       (inst[i].id # 0 /\ inst'[i].id # 0 /\ inst'[i].status # inst[i].status)
       => i \in last'.logged]_vars

\* C33: setup_custom_domain on a domain that is verified and TLS-active with
\* its certificate present changes no ledger field, writes no routing
\* configuration, attempts no certificate issuance and restarts nothing: it
\* returns after one log entry.
C33_SetupNoOpWhenLive ==
  [][\A i \in InstIds :
       (/\ last'.op = "setup" /\ last'.arg.i = i
        /\ inst[i].custom_domain # "" /\ inst[i].custom_domain_verified
        /\ inst[i].custom_domain_ssl /\ inst[i].custom_domain \in certs)
       => /\ ~last'.exc /\ last'.did = {} /\ last'.logged = {i}
          /\ inst' = inst /\ nginx' = nginx /\ certs' = certs /\ ctr' = ctr]_vars

\* C33 witness: setup_custom_domain ran again on a domain that is live.
C33_SetupSkipped ==
  /\ last.op = "setup" /\ last.ret = "skip"
  /\ inst[last.arg.i].custom_domain_ssl /\ inst[last.arg.i].custom_domain \in certs

\* C34: retry_ssl raises without running certbot when the instance has no
\* custom domain or the domain is not verified; it runs certbot only for a
\* verified domain whose TLS flag is off; when certbot fails it raises and
\* custom_domain_ssl stays false; when certbot succeeds custom_domain_ssl is
\* saved true before the routing file is rewritten and the container
\* restarted, so it is true whatever those two steps do.
C34_RetrySsl ==
  [][last'.op = "retry_ssl" =>
       LET i == last'.arg.i IN
       /\ (inst[i].custom_domain = "" \/ ~inst[i].custom_domain_verified)
            => /\ last'.exc /\ last'.did = {}
               /\ inst' = inst /\ certs' = certs /\ nginx' = nginx
       /\ "certbot" \in last'.did
            => inst[i].custom_domain_verified /\ ~inst[i].custom_domain_ssl
       /\ last'.ret = "ssl_failed"
            => /\ last'.exc /\ ~inst'[i].custom_domain_ssl
               /\ last'.did = {"certbot"} /\ nginx' = nginx
       /\ ("certbot" \in last'.did /\ last'.ret # "ssl_failed")
            => /\ inst'[i].custom_domain_ssl
               /\ inst'[i].custom_domain \in certs'
               /\ "nginx" \in last'.did
       /\ (last'.did \cap {"nginx", "restart"}) # {} => inst'[i].custom_domain_ssl]_vars

C34_IssuedThenRoutingFailed ==
  /\ last.op = "retry_ssl" /\ last.ret = "nginx_failed" /\ last.exc
  /\ inst[last.arg.i].custom_domain_ssl

\* C35: when sync_status returns, every instance that was neither deleted nor
\* pending and names a container has a ledger status that agrees with the
\* runtime: running when that container is running, stopped or error when
\* it has exited or is gone; deleted and pending instances are not written.
C35_SyncCorrectsDrift ==
  [][(last'.op = "sync" /\ ~last'.exc) =>
       \A i \in InstIds :
         inst[i].id # 0 =>
           IF inst[i].status \in {"deleted", "pending"} THEN inst'[i] = inst[i]
           ELSE inst[i].container_id # NoCid =>
             IF \E sd \in Subdomains : /\ ctr[sd].id = inst[i].container_id
                                       /\ ctr[sd].state = "running"
               THEN inst'[i].status = "running"
             ELSE inst'[i].status \in {"stopped", "error"}]_vars

C35_MissingMarkedError ==
  /\ last.op = "sync" /\ ~last.exc
  /\ \E i \in InstIds : /\ inst[i].id # 0 /\ inst[i].container_id # NoCid
                        /\ inst[i].status = "error"
                        /\ inst[i].status_message = "Container not found"

\* C36: in every state, whatever the order in which set-domain,
\* setup_custom_domain, retry_ssl and remove_custom_domain requests for one
\* instance run and overlap, custom_domain_ssl implies
\* custom_domain_verified, and custom_domain_verified implies a non-empty
\* custom_domain.
C36_DomainFlagsConsistent ==
  \A i \in InstIds :
    inst[i].id # 0 =>
      /\ inst[i].custom_domain_ssl => inst[i].custom_domain_verified
      /\ inst[i].custom_domain_verified => inst[i].custom_domain # ""

\* C37: a call of ensure_instance_provisioned (alone or from the checkout or
\* invoice.paid handler) sends the welcome mail or sets welcome_email_sent
\* only for an instance whose routing file has been written, by this call
\* or an earlier one: a routing failure after the container was created is
\* not skipped by the next call.
C37_NoWelcomeBeforeRouting ==
  [][last'.op \in {"ensure", "checkout", "invoice_paid"} =>
       \A i \in InstIds :
         (/\ inst'[i].id # 0
          /\ \/ inst'[i].welcome_email_sent /\ ~inst[i].welcome_email_sent
             \/ sent'[i] > sent[i])
         => nginx'[inst'[i].subdomain].exists]_vars

\* C38: the first welcome mail that ensure_instance_provisioned sends with
\* success for a customer's instance carries the portal credential that
\* ensure generated for that customer, also when the call that generated
\* the credential failed to send.
C38_FirstMailCarriesCredential ==
  [][last'.op \in {"ensure", "checkout", "invoice_paid"} =>
       \A i \in InstIds :
         (/\ inst'[i].id # 0 /\ sent[i] = 0 /\ sent'[i] = 1
          /\ \A j \in InstIds :
               (inst[j].id # 0 /\ inst[j].customer = inst'[i].customer) => sent[j] = 0)
         => "portal_block" \in last'.did]_vars

\* C39: creating is transient. When provision_instance, called directly or
\* by start_instance for a missing container, returns or raises, the
\* persisted status of the instance is running or error; no call leaves an
\* instance in status creating behind.
C39_CreatingIsTransient ==
  /\ [][last'.op \in {"provision", "start"}
          => /\ inst'[last'.arg.i].status \in {"running", "error"}
             /\ last'.exc <=> inst'[last'.arg.i].status = "error"]_vars
  /\ [](\A i \in InstIds : inst[i].status # "creating")

C39_RaisedAfterCreating ==
  /\ last.op = "provision" /\ last.exc /\ "error_log" \in last.did
  /\ last.logged = {last.arg.i}
  /\ inst[last.arg.i].status = "error"

=============================================================================
